---- MODULE Spec2Model ----
(***************************************************************************)
(* Verification model of the spreadsheet replication engine                *)
(* (copy_dashboard_to_sheets.py) and of the rate-limit retry helpers       *)
(* (csv_to_sheets.py).                                                     *)
(*                                                                         *)
(* Python strings that the code inspects character by character are        *)
(* modelled as sequences of one-character strings; Python None, where the  *)
(* value is a number, is NoneId; Python floats are exact rationals         *)
(* [num, den].                                                             *)
(***************************************************************************)
EXTENDS Integers, Sequences, FiniteSets, TLC

\* ------------------------------------------------------------------ bounds
MaxRow == 2
MaxCol == 2
MaxPrompts == 1
MaxRuns == 2
MaxRetriesBound == 3

\* --------------------------------------------------------------- variables
\* the translation of one worksheet into the main batch
VARIABLES t_pc, t_ws, t_sheet_id, t_requests
varsT == <<t_pc, t_ws, t_sheet_id, t_requests>>

\* one call of a retry helper of CSVToSheetsAutomation
VARIABLES r_pc, r_helper, r_max_retries, r_base_delay, r_attempt,
          r_last_exception, r_raised, r_trace, r_dest_exists
varsR == <<r_pc, r_helper, r_max_retries, r_base_delay, r_attempt,
           r_last_exception, r_raised, r_trace, r_dest_exists>>

\* copy_sheet_from_excel against the remote spreadsheet:
\*   sheets, nextId  the remote spreadsheet and the next sheet id it hands out
\*   log             the remote calls issued by the current run, in order
\*   pc, run         where the current run stands, and how many runs started
\*   args, worksheet the arguments of the call and the resolved worksheet
\*   dest_sheet      the destination title (the rename decision rebinds it)
\*   loc             the locals of copy_sheet_from_excel
\*   prompts         the decisions asked for in this run
\*   hist            what the run has seen so far (for the properties only)
VARIABLES sheets, nextId, log, pc, run, args, worksheet, dest_sheet, loc, prompts, hist
varsM == <<sheets, nextId, log, pc, run, args, worksheet, dest_sheet, loc, prompts, hist>>

\* one call of a helper function of copy_dashboard_to_sheets.py: the function,
\* its argument and what it returned
VARIABLES p_pc, p_fn, p_arg, p_result
varsP == <<p_pc, p_fn, p_arg, p_result>>

vars == <<varsT, varsR, varsM, varsP>>

\* ------------------------------------------------------- Python primitives
NoneId == -1

Float(n) == [num |-> n, den |-> 1]

\* A local that is read more than once is bound as the one element of a
\* singleton, so that it is computed once: Only({e(x) : x \in {v}}) is e(v).
Only(S) == CHOOSE x \in S : TRUE

\* A Python value as openpyxl hands it over: t is its type, and s, n, d, b
\* carry what the type needs (the empty value of the field otherwise).
PyNone        == [t |-> "NoneType", s |-> <<>>, n |-> 0, d |-> 1, b |-> FALSE]
PyStr(chars)  == [t |-> "str", s |-> chars, n |-> 0, d |-> 1, b |-> FALSE]
PyBool(b)     == [t |-> "bool", s |-> <<>>, n |-> 0, d |-> 1, b |-> b]
PyInt(n)      == [t |-> "int", s |-> <<>>, n |-> n, d |-> 1, b |-> FALSE]
\* the float n/d
PyFloat(n, d) == [t |-> "float", s |-> <<>>, n |-> n, d |-> d, b |-> FALSE]
\* a datetime.date, by its proleptic ordinal (date.toordinal())
PyDate(ord)   == [t |-> "date", s |-> <<>>, n |-> ord, d |-> 1, b |-> FALSE]
\* a datetime.datetime on a whole hour: the ordinal of its day and (in d) the
\* hour of the day
PyDateTime(ord, hour) == [t |-> "datetime", s |-> <<>>, n |-> ord, d |-> hour, b |-> FALSE]
\* a datetime.time, which openpyxl yields for time-of-day cells
PyTime(secs)  == [t |-> "time", s |-> <<>>, n |-> secs, d |-> 1, b |-> FALSE]
\* an openpyxl ArrayFormula object (s is its formula text)
PyArrayFormula(chars) == [t |-> "ArrayFormula", s |-> chars, n |-> 0, d |-> 1, b |-> FALSE]
\* an openpyxl DataTableFormula object (the cell of a data table: it holds
\* the reference and the input cells of the table, and no formula text)
PyDataTableFormula == [t |-> "DataTableFormula", s |-> <<>>, n |-> 0, d |-> 1, b |-> FALSE]

startswith(chars, c) == Len(chars) >= 1 /\ chars[1] = c

\* str(value) for the values that reach the last branch of build_cell_value
PyStrOf(value) ==
    CASE value.t = "str"  -> value.s
      [] value.t = "time" -> <<"t", "i", "m", "e">>
      [] OTHER            -> <<"o", "b", "j">>

\* float(value) for an int or a float
float(value) == [num |-> value.n, den |-> value.d]

\* openpyxl.utils.datetime.to_excel for a date or a datetime: the days since
\* 1899-12-30 with the fraction of the day (in 24ths), less one up to day 60
\* (the 1900 leap-year adjustment).
to_excel(value) ==
    LET hour == IF value.t = "datetime" THEN value.d ELSE 0
        num  == (value.n - 693594) * 24 + hour
    IN  [num |-> IF num <= 60 * 24 THEN num - 24 ELSE num, den |-> 24]

\* ------------------------------------------------------ build_cell_value
\* The result is NoValue (Python None) or a one-key dict {kind: payload}:
\* s and t are the payload of formulaValue (the cell's value unchanged) and
\* of stringValue, num/den of numberValue, b of boolValue.
NoValue == [kind |-> "None", s |-> <<>>, t |-> "NoneType", num |-> 0, den |-> 1, b |-> FALSE]
FormulaValue(value) ==
    [kind |-> "formulaValue", s |-> value.s, t |-> value.t, num |-> 0, den |-> 1, b |-> FALSE]
BoolValue(b) ==
    [kind |-> "boolValue", s |-> <<>>, t |-> "bool", num |-> 0, den |-> 1, b |-> b]
NumberValue(f) ==
    [kind |-> "numberValue", s |-> <<>>, t |-> "float", num |-> f.num, den |-> f.den, b |-> FALSE]
StringValue(chars) ==
    [kind |-> "stringValue", s |-> chars, t |-> "str", num |-> 0, den |-> 1, b |-> FALSE]

\* isinstance(value, (int, float)) is also true of a bool
build_cell_value_int_before_bool(cell) ==
    LET value == cell.value
    IN  IF value.t = "NoneType" THEN NoValue
        ELSE IF cell.data_type = "f" \/ (value.t = "str" /\ startswith(value.s, "="))
        THEN FormulaValue(value)
        ELSE IF value.t = "bool" THEN NumberValue(Float(IF value.b THEN 1 ELSE 0))
        ELSE IF value.t \in {"int", "float"} THEN NumberValue(float(value))
        ELSE IF value.t \in {"datetime", "date"} THEN NumberValue(to_excel(value))
        ELSE StringValue(PyStrOf(value))

build_cell_value(cell) ==
    LET value == cell.value
    IN  IF value.t = "NoneType" THEN NoValue
        ELSE IF cell.data_type = "f" \/ (value.t = "str" /\ startswith(value.s, "="))
        THEN FormulaValue(value)
        ELSE IF value.t = "bool" THEN BoolValue(value.b)
        ELSE IF value.t \in {"int", "float"} THEN NumberValue(float(value))
        ELSE IF value.t \in {"datetime", "date"} THEN NumberValue(to_excel(value))
        ELSE StringValue(PyStrOf(value))

\* ---------------------------------------------------------- rgb_to_color
HexChars == <<"0", "1", "2", "3", "4", "5", "6", "7", "8", "9",
              "A", "B", "C", "D", "E", "F">>
LowerHex == <<"a", "b", "c", "d", "e", "f">>

IsHexChar(c) ==
    \/ \E i \in 1..16 : HexChars[i] = c
    \/ \E i \in 1..6 : LowerHex[i] = c

HexVal(c) ==
    IF \E i \in 1..16 : HexChars[i] = c
    THEN (CHOOSE i \in 1..16 : HexChars[i] = c) - 1
    ELSE (CHOOSE i \in 1..6 : LowerHex[i] = c) + 9

\* str.replace(old, "") for a two-character old: leftmost, non-overlapping.
RECURSIVE RemovePair(_, _, _)
RemovePair(chars, a, b) ==
    IF Len(chars) = 0 THEN <<>>
    ELSE IF Len(chars) >= 2 /\ chars[1] = a /\ chars[2] = b
    THEN RemovePair(SubSeq(chars, 3, Len(chars)), a, b)
    ELSE <<chars[1]>> \o RemovePair(Tail(chars), a, b)

\* str.replace(c, "") for one character
RemoveChar(chars, c) == SelectSeq(chars, LAMBDA x : x # c)

ColorNone  == [tag |-> "None", red |-> 0, green |-> 0, blue |-> 0]
ColorRaise == [tag |-> "ValueError", red |-> 0, green |-> 0, blue |-> 0]

\* int(pair, 16) succeeds on two hex digits
IsHexPair(chars, i) == IsHexChar(chars[i]) /\ IsHexChar(chars[i + 1])
HexPair(chars, i) == 16 * HexVal(chars[i]) + HexVal(chars[i + 1])

\* the alpha channel of an eight-character string is kept
rgb_to_color_keeps_alpha(rgb) ==
    IF Len(rgb) = 0 THEN ColorNone
    ELSE
      LET stripped == RemoveChar(RemovePair(rgb, "0", "x"), "#")
      IN  IF Len(stripped) # 6 THEN ColorNone
          ELSE IF ~(IsHexPair(stripped, 1) /\ IsHexPair(stripped, 3) /\ IsHexPair(stripped, 5))
          THEN ColorRaise
          ELSE [tag |-> "color", red |-> HexPair(stripped, 1),
                green |-> HexPair(stripped, 3), blue |-> HexPair(stripped, 5)]

\* rgb is the string of a colour, <<>> when it is None or empty.  The result
\* carries the numerators of red, green and blue over 255.
rgb_to_color(rgb) ==
    IF Len(rgb) = 0 THEN ColorNone
    ELSE
      LET stripped == RemoveChar(RemovePair(rgb, "0", "x"), "#")
          noalpha  == IF Len(stripped) = 8 THEN SubSeq(stripped, 3, 8) ELSE stripped
      IN  IF Len(noalpha) # 6 THEN ColorNone
          ELSE IF ~(IsHexPair(noalpha, 1) /\ IsHexPair(noalpha, 3) /\ IsHexPair(noalpha, 5))
          THEN ColorRaise
          ELSE [tag |-> "color", red |-> HexPair(noalpha, 1),
                green |-> HexPair(noalpha, 3), blue |-> HexPair(noalpha, 5)]

\* ---------------------------------------------------- build_number_format
\* openpyxl.styles.numbers.is_date_format, on the patterns of the model
is_date_format(fmt) == fmt \in {"yyyy-mm-dd", "mm-dd-yy", "h:mm"}
\* "%" in fmt
HasPercent(fmt) == fmt \in {"0%", "0.00%"}

NoNumberFormat == [type |-> "None", pattern |-> ""]

build_number_format(cell) ==
    LET fmt == cell.number_format
    IN  IF fmt = "" THEN NoNumberFormat
        ELSE IF cell.value.t \in {"date", "datetime"} \/ is_date_format(fmt)
        THEN [type |-> "DATE", pattern |-> fmt]
        ELSE IF HasPercent(fmt) THEN [type |-> "PERCENT", pattern |-> fmt]
        ELSE IF fmt = "@" THEN [type |-> "TEXT", pattern |-> fmt]
        ELSE [type |-> "NUMBER", pattern |-> fmt]

\* ----------------------------------------------------------- build_borders
BORDER_STYLE_MAP(style) ==
    CASE style = "thin"         -> "SOLID"
      [] style = "medium"       -> "SOLID_MEDIUM"
      [] style = "thick"        -> "SOLID_THICK"
      [] style = "double"       -> "DOUBLE"
      [] style = "dashed"       -> "DASHED"
      [] style = "dotted"       -> "DOTTED"
      [] style = "hair"         -> "DOTTED"
      [] style = "mediumDashed" -> "DASHED"
      [] style = "dashDot"      -> "DASHED"
      [] style = "dashDotDot"   -> "DASHED"
      [] style = "slantDashDot" -> "DASHED"
      [] OTHER                  -> "SOLID"

NoSide == [style |-> "None", color |-> ColorNone]

\* convert_side: a side with no style is omitted; a colour that does not
\* translate is left out of the side.
convert_side(side) ==
    IF side.style = "" THEN NoSide
    ELSE [style |-> BORDER_STYLE_MAP(side.style), color |-> rgb_to_color(side.color)]

build_borders(cell) ==
    [top    |-> convert_side(cell.border.top),
     bottom |-> convert_side(cell.border.bottom),
     left   |-> convert_side(cell.border.left),
     right  |-> convert_side(cell.border.right)]

BordersRaise(borders) ==
    \E k \in {"top", "bottom", "left", "right"} : borders[k].color.tag = "ValueError"

BordersEmpty(borders) ==
    \A k \in {"top", "bottom", "left", "right"} : borders[k].style = "None"

\* ------------------------------------------------------- build_cell_format
\* str.upper() on the alignment names openpyxl knows
Upper(name) ==
    CASE name = "center"           -> "CENTER"
      [] name = "left"             -> "LEFT"
      [] name = "right"            -> "RIGHT"
      [] name = "general"          -> "GENERAL"
      [] name = "justify"          -> "JUSTIFY"
      [] name = "distributed"      -> "DISTRIBUTED"
      [] name = "centerContinuous" -> "CENTERCONTINUOUS"
      [] name = "top"              -> "TOP"
      [] name = "bottom"           -> "BOTTOM"
      [] OTHER                     -> name

horiz_map(horiz) == IF horiz = "CENTER_CONTINUOUS" THEN "CENTER" ELSE horiz
vert_map(vert) == IF vert \in {"CENTER", "JUSTIFY", "DISTRIBUTED"} THEN "MIDDLE" ELSE vert

\* Every optional sub-record is present in the model's record; "absent" is
\* spelled by the empty value of its type ("" / 0 / FALSE / tag "None").
build_cell_format(cell) ==
    Only({ [raises |-> \/ font_color.tag = "ValueError"
                      \/ fill_color.tag = "ValueError"
                      \/ BordersRaise(borders),
            textFormat |-> [bold |-> cell.font.bold,
                            italic |-> cell.font.italic,
                            underline |-> (cell.font.underline # ""),
                            fontSize |-> cell.font.sz,
                            fontFamily |-> cell.font.name,
                            foregroundColor |-> font_color],
            backgroundColor |-> fill_color,
            horizontalAlignment |->
                IF cell.alignment.horizontal = "" THEN ""
                ELSE horiz_map(Upper(cell.alignment.horizontal)),
            verticalAlignment |->
                IF cell.alignment.vertical = "" THEN ""
                ELSE vert_map(Upper(cell.alignment.vertical)),
            wrapStrategy |-> IF cell.alignment.wrap_text THEN "WRAP" ELSE "",
            numberFormat |-> build_number_format(cell),
            borders |-> borders] :
           font_color \in {rgb_to_color(cell.font.color)},
           fill_color \in {IF cell.fill.patternType = "solid"
                           THEN rgb_to_color(cell.fill.fgColor) ELSE ColorNone},
           borders \in {build_borders(cell)} })

\* fmt or None: the dict is empty when no sub-record was set
FormatIsNone(fmt) ==
    /\ ~fmt.textFormat.bold /\ ~fmt.textFormat.italic /\ ~fmt.textFormat.underline
    /\ fmt.textFormat.fontSize = 0 /\ fmt.textFormat.fontFamily = ""
    /\ fmt.textFormat.foregroundColor.tag # "color"
    /\ fmt.backgroundColor.tag # "color"
    /\ fmt.horizontalAlignment = "" /\ fmt.verticalAlignment = ""
    /\ fmt.wrapStrategy = ""
    /\ fmt.numberFormat.type = "None"
    /\ BordersEmpty(fmt.borders)

\* ---------------------------------------------------------------- build_rows
\* A worksheet ws has max_row, max_column and cells[r][c] (1-based).
\* ws.max_row or 1
OrOne(n) == IF n = 0 THEN 1 ELSE n

cell_data(cell) ==
    Only({ [hasValue  |-> value.kind # "None",
            userEnteredValue  |-> value,
            hasFormat |-> ~FormatIsNone(cell_format),
            userEnteredFormat |-> cell_format] :
           value \in {build_cell_value(cell)},
           cell_format \in {build_cell_format(cell)} })

\* range(1, max_col) in place of range(1, max_col + 1)
build_rows_short(ws) ==
    LET max_row == OrOne(ws.max_row)
        max_col == OrOne(ws.max_column)
    IN  [rows_data |-> [r \in 1..max_row |->
                          [values |-> [c \in 1..(max_col - 1) |-> cell_data(ws.cells[r][c])]]],
         max_row |-> max_row,
         max_col |-> max_col]

build_rows(ws) ==
    LET max_row == OrOne(ws.max_row)
        max_col == OrOne(ws.max_column)
    IN  [rows_data |-> [r \in 1..max_row |->
                          [values |-> [c \in 1..max_col |-> cell_data(ws.cells[r][c])]]],
         max_row |-> max_row,
         max_col |-> max_col]

\* ------------------------------------------------------- character helpers
Alphabet == <<"A", "B", "C", "D", "E", "F", "G", "H", "I", "J", "K", "L", "M",
              "N", "O", "P", "Q", "R", "S", "T", "U", "V", "W", "X", "Y", "Z">>
LowerAlphabet == <<"a", "b", "c", "d", "e", "f", "g", "h", "i", "j", "k", "l", "m",
                   "n", "o", "p", "q", "r", "s", "t", "u", "v", "w", "x", "y", "z">>
Digits == <<"0", "1", "2", "3", "4", "5", "6", "7", "8", "9">>

isalpha(c) == \E i \in 1..26 : Alphabet[i] = c \/ LowerAlphabet[i] = c
isdigit(c) == \E i \in 1..10 : Digits[i] = c

\* the 1-based rank of a letter, upper or lower case (str.upper() first)
LetterRank(c) == CHOOSE i \in 1..26 : Alphabet[i] = c \/ LowerAlphabet[i] = c
DigitVal(c) == (CHOOSE i \in 1..10 : Digits[i] = c) - 1

\* the index of the first occurrence of c in chars, 0 when there is none
RECURSIVE IndexOf(_, _)
IndexOf(chars, c) ==
    IF Len(chars) = 0 THEN 0
    ELSE IF chars[1] = c THEN 1
    ELSE LET k == IndexOf(Tail(chars), c) IN IF k = 0 THEN 0 ELSE k + 1

\* str.strip(c)
RECURSIVE LStrip(_, _)
LStrip(chars, c) ==
    IF Len(chars) > 0 /\ chars[1] = c THEN LStrip(Tail(chars), c) ELSE chars
RECURSIVE RStrip(_, _)
RStrip(chars, c) ==
    IF Len(chars) > 0 /\ chars[Len(chars)] = c
    THEN RStrip(SubSeq(chars, 1, Len(chars) - 1), c) ELSE chars
Strip(chars, c) == RStrip(LStrip(chars, c), c)

\* openpyxl.utils.column_index_from_string: bijective base 26 on one to
\* three letters; anything else is a ValueError (0 here).
RECURSIVE Base26(_)
Base26(letters) ==
    IF Len(letters) = 0 THEN 0
    ELSE 26 * Base26(SubSeq(letters, 1, Len(letters) - 1)) + LetterRank(letters[Len(letters)])

column_index_from_string(letters) ==
    IF Len(letters) \in 1..3 THEN Base26(letters) ELSE 0

\* int(digits) on a string of decimal digits; the empty string is a
\* ValueError (NoneId here).
RECURSIVE DecimalValue(_)
DecimalValue(digits) ==
    IF Len(digits) = 0 THEN 0
    ELSE 10 * DecimalValue(SubSeq(digits, 1, Len(digits) - 1)) + DigitVal(digits[Len(digits)])

int(digits) == IF Len(digits) = 0 THEN NoneId ELSE DecimalValue(digits)

\* --------------------------------------------------- parse_range_reference
RefNone  == [tag |-> "None", sheet_name |-> <<>>, start_row |-> 0, end_row |-> 0,
             start_col |-> 0, end_col |-> 0]
RefRaise == [tag |-> "ValueError", sheet_name |-> <<>>, start_row |-> 0, end_row |-> 0,
             start_col |-> 0, end_col |-> 0]

\* the column and the row of one endpoint, as the two comprehensions read them
CellCol(cell) == column_index_from_string(SelectSeq(cell, isalpha))
CellRow(cell) == int(SelectSeq(cell, isdigit))

parse_range_reference(ref) ==
    IF Len(ref) = 0 THEN RefNone
    ELSE IF IndexOf(ref, "!") = 0 THEN RefNone
    ELSE
      LET bang       == IndexOf(ref, "!")
          sheet_name == Strip(SubSeq(ref, 1, bang - 1), "'")
          raw        == SubSeq(ref, bang + 1, Len(ref))
          doubled    == IF IndexOf(raw, ":") = 0 THEN raw \o <<":">> \o raw ELSE raw
          cell_range == RemoveChar(doubled, "$")
          colon      == IndexOf(cell_range, ":")
          start_cell == SubSeq(cell_range, 1, colon - 1)
          end_cell   == SubSeq(cell_range, colon + 1, Len(cell_range))
      IN  IF \/ CellCol(start_cell) = 0 \/ CellRow(start_cell) = NoneId
             \/ CellCol(end_cell) = 0 \/ CellRow(end_cell) = NoneId
          THEN RefRaise
          ELSE [tag |-> "ok", sheet_name |-> sheet_name,
                start_row |-> CellRow(start_cell), end_row |-> CellRow(end_cell),
                start_col |-> CellCol(start_cell), end_col |-> CellCol(end_cell)]

\* openpyxl.utils.cell.range_boundaries on the coordinates openpyxl itself
\* prints ("A1:B2", "C3"): (min_col, min_row, max_col, max_row)
range_boundaries(coord) ==
    LET colon == IndexOf(coord, ":")
        first == IF colon = 0 THEN coord ELSE SubSeq(coord, 1, colon - 1)
        last  == IF colon = 0 THEN coord ELSE SubSeq(coord, colon + 1, Len(coord))
    IN  [min_col |-> CellCol(first), min_row |-> CellRow(first),
         max_col |-> CellCol(last), max_row |-> CellRow(last)]

build_grid_range(sheet_id, start_row, end_row, start_col, end_col) ==
    [sheetId |-> sheet_id,
     startRowIndex |-> start_row - 1,
     endRowIndex |-> end_row,
     startColumnIndex |-> start_col - 1,
     endColumnIndex |-> end_col]

\* --------------------------------------- convert_dimension_size_to_pixels
\* Python round() on the exact quotient n/d (n >= 0, d > 0): half to even.
round(n, d) ==
    LET q == n \div d
        r == n % d
    IN  IF 2 * r < d THEN q
        ELSE IF 2 * r > d THEN q + 1
        ELSE IF q % 2 = 0 THEN q ELSE q + 1

\* int(...) without round(...): the fraction is cut off
convert_dimension_size_to_pixels_no_round(value, is_row) ==
    IF is_row
    THEN (value.num * 96) \div (value.den * 72)
    ELSE (value.num * 7 + 5 * value.den) \div value.den

\* value is the rational [num, den]; the result is a number of pixels.
convert_dimension_size_to_pixels(value, is_row) ==
    IF is_row
    THEN round(value.num * 96, value.den * 72)
    ELSE round(value.num * 7 + 5 * value.den, value.den)

\* ------------------------------------------------ build_dimension_requests
\* "if dim.width:" and "if pixel_size:" both drop a zero
UpdateDimension(sheet_id, dimension, start, pixel_size) ==
    [kind |-> "updateDimensionProperties",
     range |-> [sheetId |-> sheet_id, dimension |-> dimension,
                startIndex |-> start, endIndex |-> start + 1],
     pixelSize |-> pixel_size]

RECURSIVE ColumnDimensionRequests(_, _)
ColumnDimensionRequests(dims, sheet_id) ==
    IF Len(dims) = 0 THEN <<>>
    ELSE
      LET dim        == dims[1]
          pixel_size == convert_dimension_size_to_pixels(dim.width, FALSE)
          rest       == ColumnDimensionRequests(Tail(dims), sheet_id)
      IN  IF dim.width.num # 0 /\ pixel_size # 0
          THEN <<UpdateDimension(sheet_id, "COLUMNS",
                                 column_index_from_string(dim.letter) - 1, pixel_size)>> \o rest
          ELSE rest

RECURSIVE RowDimensionRequests(_, _)
RowDimensionRequests(dims, sheet_id) ==
    IF Len(dims) = 0 THEN <<>>
    ELSE
      LET dim        == dims[1]
          pixel_size == convert_dimension_size_to_pixels(dim.height, TRUE)
          rest       == RowDimensionRequests(Tail(dims), sheet_id)
      IN  IF dim.height.num # 0 /\ pixel_size # 0
          THEN <<UpdateDimension(sheet_id, "ROWS", dim.row_idx - 1, pixel_size)>> \o rest
          ELSE rest

build_dimension_requests(ws, sheet_id) ==
    ColumnDimensionRequests(ws.column_dimensions, sheet_id)
        \o RowDimensionRequests(ws.row_dimensions, sheet_id)

\* ---------------------------------------------------- build_merge_requests
build_merge_requests(ws, sheet_id) ==
    [i \in 1..Len(ws.merged_cells) |->
        LET b == range_boundaries(ws.merged_cells[i])
        IN  [kind |-> "mergeCells",
             range |-> [sheetId |-> sheet_id,
                        startRowIndex |-> b.min_row - 1,
                        endRowIndex |-> b.max_row,
                        startColumnIndex |-> b.min_col - 1,
                        endColumnIndex |-> b.max_col],
             mergeType |-> "MERGE_ALL"]]

\* --------------------------------------- build_conditional_format_requests
\* ws.conditional_formatting is a sequence of [sqref, rules]; a rule has a
\* type, a list of formulas and a dxfId (NoneId when it has none); ws.dxfs
\* is the workbook's list of differential styles (0-based in the code).
rule_bg_color(ws, rule) ==
    IF rule.dxfId = NoneId THEN ColorNone
    ELSE LET dxf == ws.dxfs[rule.dxfId + 1]
         IN  IF dxf.fill.patternType = "solid"
             THEN rgb_to_color(dxf.fill.fgColor) ELSE ColorNone

\* the formula is emitted as the workbook holds it
rule_formula_as_is(rule) == rule.formula[1]

rule_formula(rule) ==
    LET formula == rule.formula[1]
    IN  IF startswith(formula, "=") THEN formula ELSE <<"=">> \o formula

RECURSIVE RuleRequests(_, _, _)
RuleRequests(ws, rules, grid_range) ==
    IF Len(rules) = 0 THEN <<>>
    ELSE
      LET rule == rules[1]
          rest == RuleRequests(ws, Tail(rules), grid_range)
      IN  IF rule.type # "expression" \/ Len(rule.formula) = 0 THEN rest
          ELSE <<[kind |-> "addConditionalFormatRule",
                  ranges |-> <<grid_range>>,
                  conditionType |-> "CUSTOM_FORMULA",
                  userEnteredValue |-> rule_formula(rule),
                  backgroundColor |-> rule_bg_color(ws, rule),
                  index |-> 0]>> \o rest

RECURSIVE ConditionalRequests(_, _, _)
ConditionalRequests(ws, cf_rules, sheet_id) ==
    IF Len(cf_rules) = 0 THEN <<>>
    ELSE
      LET b == range_boundaries(cf_rules[1].sqref)
          grid_range == [sheetId |-> sheet_id,
                         startRowIndex |-> b.min_row - 1,
                         endRowIndex |-> b.max_row,
                         startColumnIndex |-> b.min_col - 1,
                         endColumnIndex |-> b.max_col]
      IN  RuleRequests(ws, cf_rules[1].rules, grid_range)
              \o ConditionalRequests(ws, Tail(cf_rules), sheet_id)

build_conditional_format_requests(ws, sheet_id) ==
    ConditionalRequests(ws, ws.conditional_formatting, sheet_id)

\* a fill colour that int(.., 16) cannot read raises out of the builder
ConditionalRaises(ws) ==
    \E i \in 1..Len(ws.conditional_formatting) :
        \E j \in 1..Len(ws.conditional_formatting[i].rules) :
            LET rule == ws.conditional_formatting[i].rules[j]
            IN  /\ rule.type = "expression" /\ Len(rule.formula) > 0
                /\ rule_bg_color(ws, rule).tag = "ValueError"

RowsRaise(ws) ==
    \E r \in 1..OrOne(ws.max_row) : \E c \in 1..OrOne(ws.max_column) :
        build_cell_format(ws.cells[r][c]).raises

\* ------------------------- copy_sheet_from_excel: the main batch's requests
GridSizeRequest(new_sheet_id, max_row, max_col) ==
    [kind |-> "updateSheetProperties",
     sheetId |-> new_sheet_id,
     rowCount |-> max_row, columnCount |-> max_col,
     fields |-> "gridProperties(rowCount,columnCount)"]

UpdateCellsRequest(new_sheet_id, built) ==
    [kind |-> "updateCells",
     range |-> [sheetId |-> new_sheet_id,
                startRowIndex |-> 0, startColumnIndex |-> 0,
                endRowIndex |-> built.max_row, endColumnIndex |-> built.max_col],
     rows |-> built.rows_data,
     fields |-> "userEnteredValue,userEnteredFormat"]

main_requests_cells_first(ws, new_sheet_id) ==
    Only({ <<UpdateCellsRequest(new_sheet_id, built),
             GridSizeRequest(new_sheet_id, built.max_row, built.max_col)>>
               \o build_merge_requests(ws, new_sheet_id)
               \o build_dimension_requests(ws, new_sheet_id)
               \o build_conditional_format_requests(ws, new_sheet_id) :
           built \in {build_rows(ws)} })

main_requests(ws, new_sheet_id) ==
    Only({ <<GridSizeRequest(new_sheet_id, built.max_row, built.max_col),
             UpdateCellsRequest(new_sheet_id, built)>>
               \o build_dimension_requests(ws, new_sheet_id)
               \o build_merge_requests(ws, new_sheet_id)
               \o build_conditional_format_requests(ws, new_sheet_id) :
           built \in {build_rows(ws)} })

\* =========================================================================
\* Translation of a worksheet into the main batch
\* =========================================================================

\* ---- the source cells the translation is applied to
DefaultFont == [bold |-> FALSE, italic |-> FALSE, underline |-> "", sz |-> 11,
                name |-> "Calibri", color |-> <<>>]
HeaderFont  == [bold |-> TRUE, italic |-> FALSE, underline |-> "single", sz |-> 12,
                name |-> "Arial", color |-> <<"F", "F", "F", "F", "0", "0", "0", "0">>]
NoFill      == [patternType |-> "", fgColor |-> <<"0", "0", "0", "0", "0", "0", "0", "0">>]
SolidFill   == [patternType |-> "solid", fgColor |-> <<"F", "F", "D", "9", "E", "1", "F", "2">>]
NoAlignment == [horizontal |-> "", vertical |-> "", wrap_text |-> FALSE]
Centered    == [horizontal |-> "center", vertical |-> "center", wrap_text |-> TRUE]
NoBorderSide == [style |-> "", color |-> <<>>]
ThinSide    == [style |-> "thin", color |-> <<"F", "F", "0", "0", "0", "0", "0", "0">>]
NoBorder    == [top |-> NoBorderSide, bottom |-> NoBorderSide,
                left |-> NoBorderSide, right |-> NoBorderSide]
BottomBorder == [top |-> NoBorderSide, bottom |-> ThinSide,
                 left |-> NoBorderSide, right |-> NoBorderSide]

PlainCell(value, data_type) ==
    [value |-> value, data_type |-> data_type, number_format |-> "General",
     font |-> DefaultFont, fill |-> NoFill, alignment |-> NoAlignment, border |-> NoBorder]
StyledCell(value, data_type, number_format) ==
    [value |-> value, data_type |-> data_type, number_format |-> number_format,
     font |-> HeaderFont, fill |-> SolidFill, alignment |-> Centered, border |-> BottomBorder]

\* a cell whose font colour is six characters that are not hex digits
MiscoloredCell ==
    [PlainCell(PyStr(<<"A">>), "s") EXCEPT
        !.font = [DefaultFont EXCEPT !.color = <<"G", "G", "0", "0", "0", "0">>]]

\* The first four are the grid [["Name","Amount"],["A",10]]; the others are
\* every kind of (value, data_type) a loaded workbook holds.
SampleCells ==
    << PlainCell(PyStr(<<"N", "a", "m", "e">>), "s"),
       PlainCell(PyStr(<<"A", "m", "o", "u", "n", "t">>), "s"),
       PlainCell(PyStr(<<"A">>), "s"),
       PlainCell(PyInt(10), "n"),
       PlainCell(PyNone, "n"),
       PlainCell(PyBool(TRUE), "b"),
       StyledCell(PyStr(<<"=", "A", "1", "+", "1">>), "f", "0.00"),
       PlainCell(PyStr(<<"=", "x">>), "s"),
       StyledCell(PyFloat(5, 2), "n", "0%"),
       StyledCell(PyDateTime(739000, 12), "d", "yyyy-mm-dd"),
       PlainCell(PyDate(693600), "d"),
       StyledCell(PyTime(3600), "d", "h:mm"),
       PlainCell(PyArrayFormula(<<"=", "S", "U", "M">>), "f"),
       PlainCell(PyStr(<<"#", "N", "/", "A">>), "e"),
       PlainCell(PyBool(FALSE), "b"),
       StyledCell(PyStr(<<"t", "e", "x", "t">>), "s", "@"),
       MiscoloredCell,
       PlainCell(PyDataTableFormula, "f") >>

\* a grid of max_row x max_col cells that runs through SampleCells from off
PatternCells(max_row, max_col, off) ==
    [r \in 1..max_row |->
        [c \in 1..max_col |->
            SampleCells[((off + (r - 1) * max_col + (c - 1)) % Len(SampleCells)) + 1]]]

NoDecoration ==
    [column_dimensions |-> <<>>, row_dimensions |-> <<>>, merged_cells |-> <<>>,
     conditional_formatting |-> <<>>, dxfs |-> <<>>]

FullDecoration ==
    [column_dimensions |-> << [letter |-> <<"A">>, width |-> [num |-> 843, den |-> 100]],
                              [letter |-> <<"B">>, width |-> [num |-> 0, den |-> 1]] >>,
     row_dimensions |-> << [row_idx |-> 1, height |-> [num |-> 15, den |-> 1]] >>,
     merged_cells |-> << <<"A", "1", ":", "B", "1">> >>,
     conditional_formatting |->
        << [sqref |-> <<"A", "1", ":", "B", "2">>,
            rules |-> << [type |-> "expression", formula |-> << <<"A", "1", ">", "0">> >>,
                          dxfId |-> 0],
                         [type |-> "cellIs", formula |-> << <<"5">> >>, dxfId |-> NoneId],
                         [type |-> "expression", formula |-> << <<"=", "B", "1">> >>,
                          dxfId |-> NoneId] >>] >>,
     dxfs |-> << [fill |-> SolidFill] >>]

\* a formula rule whose fill colour is six characters that are not hex digits
MiscoloredRule ==
    [NoDecoration EXCEPT
        !.conditional_formatting =
            << [sqref |-> <<"A", "1">>,
                rules |-> << [type |-> "expression", formula |-> << <<"A", "1", ">", "0">> >>,
                              dxfId |-> 0] >>] >>,
        !.dxfs = << [fill |-> [patternType |-> "solid",
                               fgColor |-> <<"G", "G", "0", "0", "0", "0">>]] >>]

\* rules on two ranges: a formula rule on the first, a cell-value rule and
\* a formula rule on the second
LayeredRules ==
    [NoDecoration EXCEPT
        !.conditional_formatting =
            << [sqref |-> <<"A", "1">>,
                rules |-> << [type |-> "expression", formula |-> << <<"A", "1", ">", "0">> >>,
                              dxfId |-> 0] >>],
               [sqref |-> <<"A", "1", ":", "B", "2">>,
                rules |-> << [type |-> "cellIs", formula |-> << <<"5">> >>, dxfId |-> NoneId],
                             [type |-> "expression", formula |-> << <<"=", "B", "1">> >>,
                              dxfId |-> NoneId],
                             [type |-> "expression", formula |-> << <<"B", "2", "<", "0">> >>,
                              dxfId |-> 0] >>] >>,
        !.dxfs = << [fill |-> SolidFill] >>]

Decorations == {NoDecoration, FullDecoration, MiscoloredRule, LayeredRules}

Worksheet(max_row, max_col, off, deco) ==
    [max_row |-> max_row, max_column |-> max_col,
     cells |-> PatternCells(max_row, max_col, off),
     column_dimensions |-> deco.column_dimensions,
     row_dimensions |-> deco.row_dimensions,
     merged_cells |-> deco.merged_cells,
     conditional_formatting |-> deco.conditional_formatting,
     dxfs |-> deco.dxfs]

SheetIds == {0, 7}

IdleTranslate ==
    /\ t_pc = "idle" /\ t_ws = <<>> /\ t_sheet_id = NoneId /\ t_requests = <<>>

LoadedWorksheet ==
    /\ t_pc = "loaded"
    /\ \E max_row \in 1..MaxRow, max_col \in 1..MaxCol,
          off \in 0..(Len(SampleCells) - 1), deco \in Decorations :
          t_ws = Worksheet(max_row, max_col, off, deco)
    /\ t_sheet_id \in SheetIds
    /\ t_requests = <<>>

\* copy_sheet_from_excel, lines 644 and 673-699: the requests of the main
\* batch are built from the worksheet.
BuildMainRequests ==
    /\ t_pc = "loaded"
    /\ ~RowsRaise(t_ws) /\ ~ConditionalRaises(t_ws)
    /\ t_requests' = main_requests(t_ws, t_sheet_id)
    /\ t_pc' = "built"
    /\ UNCHANGED <<t_ws, t_sheet_id>>
    /\ UNCHANGED <<varsR, varsM, varsP>>

\* lines 644 and 699: the ValueError of rgb_to_color is caught neither by
\* build_rows or build_conditional_format_requests nor by
\* copy_sheet_from_excel, so no request of the main batch is submitted
TranslationRaises ==
    /\ t_pc = "loaded"
    /\ RowsRaise(t_ws) \/ ConditionalRaises(t_ws)
    /\ t_pc' = "raised"
    /\ UNCHANGED <<t_ws, t_sheet_id, t_requests>>
    /\ UNCHANGED <<varsR, varsM, varsP>>

NextTranslate == BuildMainRequests \/ TranslationRaises

\* ---- claims about the translation
TheUpdateCells == {i \in 1..Len(t_requests) : t_requests[i].kind = "updateCells"}
UpdateCellsOp == t_requests[CHOOSE i \in TheUpdateCells : TRUE]

\* the emitted cell at 0-based (r, c)
EmittedCell(r, c) == UpdateCellsOp.rows[r + 1].values[c + 1]
\* the source cell at 1-based (r, c)
SourceCell(r, c) == t_ws.cells[r][c]

ExampleGrid == PatternCells(2, 2, 0)

\* C9: the main batch holds exactly one updateCells; its range is rows
\* [0, maxRow) and columns [0, maxCol) of the destination; it carries maxRow
\* rows of maxCol cells; the cell at 0-based (r, c) holds the translated value
\* and format of source cell (r+1, c+1); for [["Name","Amount"],["A",10]]
\* cell (0,0) holds stringValue "Name" and cell (1,1) numberValue 10.0.
C9_OneUpdateCellsCoversGrid ==
    t_pc = "built" =>
        /\ Cardinality(TheUpdateCells) = 1
        /\ UpdateCellsOp.range = [sheetId |-> t_sheet_id,
                                  startRowIndex |-> 0, startColumnIndex |-> 0,
                                  endRowIndex |-> t_ws.max_row,
                                  endColumnIndex |-> t_ws.max_column]
        /\ Len(UpdateCellsOp.rows) = t_ws.max_row
        /\ \A r \in 0..(t_ws.max_row - 1) :
              /\ Len(UpdateCellsOp.rows[r + 1].values) = t_ws.max_column
              /\ \A c \in 0..(t_ws.max_column - 1) :
                    /\ EmittedCell(r, c).userEnteredValue
                          = build_cell_value(SourceCell(r + 1, c + 1))
                    /\ EmittedCell(r, c).hasValue
                          = (SourceCell(r + 1, c + 1).value.t # "NoneType")
                    /\ EmittedCell(r, c).userEnteredFormat
                          = build_cell_format(SourceCell(r + 1, c + 1))
        /\ (t_ws.cells = ExampleGrid =>
              /\ EmittedCell(0, 0).userEnteredValue.kind = "stringValue"
              /\ EmittedCell(0, 0).userEnteredValue.s = <<"N", "a", "m", "e">>
              /\ EmittedCell(1, 1).userEnteredValue.kind = "numberValue"
              /\ EmittedCell(1, 1).userEnteredValue.num = 10
              /\ EmittedCell(1, 1).userEnteredValue.den = 1)

C9_Witness ==
    /\ t_pc = "built"
    /\ t_ws.cells = ExampleGrid
    /\ t_ws.merged_cells = <<>>
    /\ Len(t_requests) = 2
    /\ EmittedCell(1, 1).userEnteredValue.kind = "numberValue"

\* the value variant the claim assigns to a source cell, read as written:
\* "=" strings are formulas, booleans Bool, numbers and dates Number, an
\* empty cell nothing, everything else String
ClaimedKind(cell) ==
    IF cell.value.t = "str" /\ startswith(cell.value.s, "=") THEN "formulaValue"
    ELSE IF cell.value.t = "bool" THEN "boolValue"
    ELSE IF cell.value.t \in {"int", "float", "date", "datetime"} THEN "numberValue"
    ELSE IF cell.value.t = "NoneType" THEN "None"
    ELSE "stringValue"

\* the same with the cells that openpyxl flags as formulas (data_type "f")
FlaggedKind(cell) ==
    IF cell.value.t = "NoneType" THEN "None"
    ELSE IF cell.data_type = "f" THEN "formulaValue"
    ELSE ClaimedKind(cell)

EmittedCells == {rc \in (0..(t_ws.max_row - 1)) \X (0..(t_ws.max_column - 1)) : TRUE}

\* C10 as stated: every cell's value variant is the one ClaimedKind names,
\* and a formula carries the original text.
C10_AsStated ==
    t_pc = "built" =>
        \A rc \in EmittedCells :
            LET cell == SourceCell(rc[1] + 1, rc[2] + 1)
                out  == EmittedCell(rc[1], rc[2]).userEnteredValue
            IN  /\ out.kind = ClaimedKind(cell)
                /\ (out.kind = "formulaValue" => out.s = cell.value.s)

\* C10 (amended): a non-empty cell flagged as a formula by its data type, or
\* whose value is a string beginning with "=", becomes Formula carrying the
\* cell's value unchanged; otherwise booleans become Bool (never Number),
\* ints, floats and dates Number (an int n is n/1), an empty cell yields no
\* value, and everything else becomes String.
C10_ValueVariants ==
    t_pc = "built" =>
        \A rc \in EmittedCells :
            LET cell == SourceCell(rc[1] + 1, rc[2] + 1)
                out  == EmittedCell(rc[1], rc[2]).userEnteredValue
            IN  /\ out.kind = FlaggedKind(cell)
                /\ (out.kind = "formulaValue" => out.s = cell.value.s /\ out.t = cell.value.t)
                /\ (cell.value.t = "bool" => out.kind = "boolValue" /\ out.b = cell.value.b)
                /\ (cell.value.t \in {"int", "float"} =>
                        out.num = cell.value.n /\ out.den = cell.value.d)
                /\ (out.kind = "stringValue" /\ cell.value.t = "str" => out.s = cell.value.s)
                /\ (out.kind = "None" <=> ~EmittedCell(rc[1], rc[2]).hasValue)

C10_Witness ==
    /\ t_pc = "built"
    /\ \E rc \in EmittedCells :
          /\ SourceCell(rc[1] + 1, rc[2] + 1).value.t = "ArrayFormula"
          /\ EmittedCell(rc[1], rc[2]).userEnteredValue.kind = "formulaValue"
    /\ \E rc \in EmittedCells :
          /\ SourceCell(rc[1] + 1, rc[2] + 1).value.t = "bool"
          /\ EmittedCell(rc[1], rc[2]).userEnteredValue.kind = "boolValue"

\* =========================================================================
\* The retry helpers of CSVToSheetsAutomation
\* =========================================================================
Helpers == {"_retry_gspread", "_retry_drive", "_download_drive_file"}

\* What the wrapped call can raise: cls is the exception class, status the
\* HTTP status of its response, marker whether its text holds
\* "rateLimitExceeded", "userRateLimitExceeded" or "quota", text429 whether
\* its text holds "429" (the text of an HttpError always holds its status).
NoError == [cls |-> "None", status |-> 0, marker |-> FALSE, text429 |-> FALSE]
Errors ==
    { [cls |-> c, status |-> st, marker |-> m, text429 |-> t] :
        c \in {"HttpError", "APIError"}, st \in {429, 403, 500},
        m \in BOOLEAN, t \in BOOLEAN }
    \cup {[cls |-> "OSError", status |-> 0, marker |-> FALSE, text429 |-> FALSE]}
\* gspread calls raise APIError, Drive calls HttpError; both can fail with
\* an exception of another family (a socket or file error).
Raisable(helper) ==
    {e \in Errors :
        /\ e.cls = "HttpError" /\ e.status = 429 => e.text429
        /\ e.cls = "APIError" => helper = "_retry_gspread"
        /\ e.cls = "HttpError" => helper # "_retry_gspread"}
RuntimeError == [cls |-> "RuntimeError", status |-> 0, marker |-> FALSE, text429 |-> FALSE]

\* the except clause of each helper
Catches(helper, e) ==
    IF helper = "_retry_gspread" THEN e.cls = "APIError" ELSE e.cls = "HttpError"

\* is_rate_limit, lines 378-383 / 445-450 (Drive) and 546 (gspread)
is_rate_limit_drive(e) == e.status \in {429, 403} /\ (e.marker \/ e.text429)
is_rate_limit_gspread(e) == e.status = 429 \/ e.text429
is_rate_limit(helper, e) ==
    IF helper = "_retry_gspread" THEN is_rate_limit_gspread(e) ELSE is_rate_limit_drive(e)

\* "if not is_rate_limit: raise"
reraise_never(helper, e) == FALSE
reraise(helper, e) == ~is_rate_limit(helper, e)

\* "for attempt in range(max_retries)": whether another round starts
in_range_inclusive(attempt, max_retries) == attempt <= max_retries
in_range(attempt, max_retries) == attempt < max_retries

RECURSIVE Pow2(_)
Pow2(n) == IF n = 0 THEN 1 ELSE 2 * Pow2(n - 1)

\* delay = base_delay * (2 ** attempt)
backoff_delay(base_delay, attempt) == base_delay * Pow2(attempt)

BaseDelays == {1, 5}

IdleRetry ==
    /\ r_pc = "idle" /\ r_helper = "" /\ r_max_retries = 0 /\ r_base_delay = 0
    /\ r_attempt = 0 /\ r_last_exception = NoError /\ r_raised = NoError
    /\ r_trace = <<>> /\ r_dest_exists = FALSE

\* the helper is entered: the configuration is read, last_exception = None
EnteredHelper ==
    /\ r_pc = "loop"
    /\ r_helper \in Helpers
    /\ r_max_retries \in 0..MaxRetriesBound
    /\ r_base_delay \in BaseDelays
    /\ r_attempt = 0
    /\ r_last_exception = NoError
    /\ r_raised = NoError
    /\ r_trace = <<>>
    /\ r_dest_exists = FALSE

Call(e) == [ev |-> "call", attempt |-> r_attempt, err |-> e, delay |-> 0]
Sleep(delay) == [ev |-> "sleep", attempt |-> r_attempt, err |-> NoError, delay |-> delay]

\* for attempt in range(max_retries): try: return func(...)
AttemptSucceeds ==
    /\ r_pc = "loop"
    /\ in_range(r_attempt, r_max_retries)
    /\ r_trace' = Append(r_trace, Call(NoError))
    /\ r_pc' = "returned"
    /\ r_dest_exists' = (r_helper = "_download_drive_file")
    /\ UNCHANGED <<r_helper, r_max_retries, r_base_delay, r_attempt,
                   r_last_exception, r_raised>>
    /\ UNCHANGED <<varsT, varsM, varsP>>

\* the wrapped call raises e: an exception the helper does not catch, or one
\* it does not classify as rate limiting, goes to the caller; a rate-limit
\* failure is kept in last_exception and the helper goes to sleep.
\* _download_drive_file removes the partial file first.
AttemptFails ==
    /\ r_pc = "loop"
    /\ in_range(r_attempt, r_max_retries)
    /\ \E e \in Raisable(r_helper) :
          /\ r_trace' = Append(r_trace, Call(e))
          /\ IF ~Catches(r_helper, e)
             THEN /\ r_pc' = "raised"
                  /\ r_raised' = e
                  /\ r_last_exception' = r_last_exception
                  /\ r_dest_exists' = (r_helper = "_download_drive_file")
             ELSE /\ r_last_exception' = e
                  /\ r_dest_exists' = FALSE
                  /\ IF reraise(r_helper, e)
                     THEN r_pc' = "raised" /\ r_raised' = e
                     ELSE r_pc' = "backoff" /\ r_raised' = r_raised
    /\ UNCHANGED <<r_helper, r_max_retries, r_base_delay, r_attempt>>
    /\ UNCHANGED <<varsT, varsM, varsP>>

\* time.sleep(delay), then the next round of the for loop
Backoff ==
    /\ r_pc = "backoff"
    /\ r_trace' = Append(r_trace, Sleep(backoff_delay(r_base_delay, r_attempt)))
    /\ r_attempt' = r_attempt + 1
    /\ r_pc' = "loop"
    /\ UNCHANGED <<r_helper, r_max_retries, r_base_delay, r_last_exception,
                   r_raised, r_dest_exists>>
    /\ UNCHANGED <<varsT, varsM, varsP>>

\* the loop is over: raise last_exception, or RuntimeError when there is none
Exhausted ==
    /\ r_pc = "loop"
    /\ ~in_range(r_attempt, r_max_retries)
    /\ r_pc' = "raised"
    /\ r_raised' = IF r_last_exception # NoError THEN r_last_exception ELSE RuntimeError
    /\ UNCHANGED <<r_helper, r_max_retries, r_base_delay, r_attempt,
                   r_last_exception, r_trace, r_dest_exists>>
    /\ UNCHANGED <<varsT, varsM, varsP>>

NextRetry == AttemptSucceeds \/ AttemptFails \/ Backoff \/ Exhausted

\* ---- claims about the retry helpers
CallEvents == {i \in 1..Len(r_trace) : r_trace[i].ev = "call"}
RateLimited(e) == Catches(r_helper, e) /\ is_rate_limit(r_helper, e)
RetryDone == r_pc \in {"returned", "raised"}

\* C7: a helper invokes the wrapped call at most max_retries times and then
\* stops; a successful attempt is the last one and the helper returns; a
\* rate-limit failure is raised to the caller (it is the last one caught)
\* only when all max_retries attempts were made and every one failed.
C7_BoundedRetries ==
    /\ Cardinality(CallEvents) <= r_max_retries
    /\ Len(r_trace) <= 2 * r_max_retries
    /\ (~RetryDone => ENABLED NextRetry)
    /\ (RetryDone => ~ENABLED NextRetry)
    /\ \A i \in CallEvents :
          r_trace[i].err = NoError => i = Len(r_trace) /\ r_pc = "returned"
    /\ (r_pc = "returned" =>
          Len(r_trace) > 0 /\ r_trace[Len(r_trace)] = Call(NoError))
    /\ (r_pc = "raised" /\ RateLimited(r_raised) =>
          /\ Cardinality(CallEvents) = r_max_retries
          /\ \A i \in CallEvents : RateLimited(r_trace[i].err)
          /\ r_raised = r_last_exception)

C7_Witness ==
    /\ r_pc = "raised"
    /\ RateLimited(r_raised)
    /\ r_max_retries = 3
    /\ Cardinality(CallEvents) = 3

\* C8: a failure of the wrapped call that the helper does not classify as
\* rate limiting is the last event of the helper: it is raised to the caller
\* at once, with no delay and no further call after it.
C8_OtherFailuresPropagate ==
    \A i \in CallEvents :
        (r_trace[i].err # NoError /\ ~RateLimited(r_trace[i].err)) =>
            /\ i = Len(r_trace)
            /\ r_pc = "raised"
            /\ r_raised = r_trace[i].err
            /\ ~ENABLED NextRetry

C8_Witness ==
    /\ r_pc = "raised"
    /\ Catches(r_helper, r_raised)
    /\ ~is_rate_limit(r_helper, r_raised)
    /\ r_attempt = 1
    /\ r_max_retries = 3

\* =========================================================================
\* The remote spreadsheet (Google Sheets API v4), as the calls of
\* copy_dashboard_to_sheets.py use it
\* =========================================================================
\* Sheet titles are Python strings.
Dash  == <<"D", "a", "s", "h">>
Tmpl  == <<"T", "m", "p", "l">>
Data  == <<"D", "a", "t", "a">>
Blank == <<>>
\* copyTo names the copy after its source
CopyOf(title) == <<"C", "o", "p", "y", " ", "o", "f", " ">> \o title

\* A remote sheet: its properties, and what the batches have written to it.
\* cells holds the rows updateCells wrote (NoCells on a new sheet, Original
\* on a sheet that was there before); rules is the list of conditional-format
\* rules, highest priority first; charts the titles of its charts.
NoCells  == <<>>
Original == <<[values |-> <<>>]>>

NewSheet(id, title) ==
    [sheetId |-> id, title |-> title,
     frozenRowCount |-> 0, frozenColumnCount |-> 0,
     rowCount |-> 1000, columnCount |-> 26,
     cells |-> NoCells, pixelSizes |-> 0, merges |-> 0, rules |-> <<>>, charts |-> <<>>]

SheetById(ss, id) == CHOOSE sh \in ss : sh.sheetId = id

\* one request of a batchUpdate applied to the sheets ss
UpdateSheet(ss, id, f(_)) == {IF sh.sheetId = id THEN f(sh) ELSE sh : sh \in ss}

ApplyRequest(ss, req, id) ==
    CASE req.kind = "deleteSheet" -> {sh \in ss : sh.sheetId # req.sheetId}
      [] req.kind = "addSheet" -> ss \cup {NewSheet(id, req.title)}
      [] req.kind = "updateSheetProperties" /\ req.fields = "title" ->
            UpdateSheet(ss, req.sheetId, LAMBDA sh : [sh EXCEPT !.title = req.title])
      [] req.kind = "updateSheetProperties"
            /\ req.fields = "gridProperties.frozenRowCount,gridProperties.frozenColumnCount" ->
            UpdateSheet(ss, req.sheetId,
                        LAMBDA sh : [sh EXCEPT !.frozenRowCount = req.frozenRowCount,
                                               !.frozenColumnCount = req.frozenColumnCount])
      [] req.kind = "updateSheetProperties"
            /\ req.fields = "gridProperties(rowCount,columnCount)" ->
            UpdateSheet(ss, req.sheetId,
                        LAMBDA sh : [sh EXCEPT !.rowCount = req.rowCount,
                                               !.columnCount = req.columnCount])
      [] req.kind = "updateCells" ->
            UpdateSheet(ss, req.range.sheetId, LAMBDA sh : [sh EXCEPT !.cells = req.rows])
      [] req.kind = "updateDimensionProperties" ->
            UpdateSheet(ss, req.range.sheetId,
                        LAMBDA sh : [sh EXCEPT !.pixelSizes = sh.pixelSizes + 1])
      [] req.kind = "mergeCells" ->
            UpdateSheet(ss, req.range.sheetId,
                        LAMBDA sh : [sh EXCEPT !.merges = sh.merges + 1])
      [] req.kind = "addConditionalFormatRule" ->
            UpdateSheet(ss, req.ranges[1].sheetId,
                        LAMBDA sh : [sh EXCEPT !.rules = <<req.userEnteredValue>> \o sh.rules])
      [] req.kind = "addChart" ->
            UpdateSheet(ss, req.position.anchorCell.sheetId,
                        LAMBDA sh : [sh EXCEPT !.charts = Append(sh.charts, req.title)])
      [] OTHER -> ss

\* batchUpdate applies the requests of one call in order, all or none.
RECURSIVE ApplyBatch(_, _, _)
ApplyBatch(ss, requests, id) ==
    IF Len(requests) = 0 THEN ss
    ELSE ApplyBatch(ApplyRequest(ss, requests[1], id), Tail(requests), id)

\* sheets().copyTo: a copy of sheet source under a new id
CopySheet(ss, source, id) ==
    ss \cup {[SheetById(ss, source) EXCEPT !.sheetId = id,
                                          !.title = CopyOf(SheetById(ss, source).title)]}

\* ---- what the log keeps of a call
\* execute() returns, raises the HttpError of an error response (429, 500),
\* or raises the exception of the transport when no response arrives
Results == {"ok", "http429", "http500", "timeout"}
Failures == Results \ {"ok"}
HttpErrors == {"http429", "http500"}

\* the phase of section 4.7 a request belongs to; 0 for the provisioning
RequestPhase(req) ==
    CASE req.kind = "updateSheetProperties"
            /\ req.fields = "gridProperties(rowCount,columnCount)" -> 1
      [] req.kind = "updateSheetProperties"
            /\ req.fields = "gridProperties.frozenRowCount,gridProperties.frozenColumnCount"
            /\ req.frozenRowCount = 0 /\ req.frozenColumnCount = 0 -> 1
      [] req.kind = "updateCells" -> 2
      [] req.kind = "updateDimensionProperties" -> 3
      [] req.kind = "mergeCells" -> 4
      [] req.kind = "addConditionalFormatRule" -> 5
      [] req.kind = "addChart" -> 6
      [] req.kind = "updateSheetProperties"
            /\ req.fields = "gridProperties.frozenRowCount,gridProperties.frozenColumnCount" -> 7
      [] OTHER -> 0

Summary(req) == [kind |-> req.kind, phase |-> RequestPhase(req)]

Read(method, result) == [call |-> method, requests |-> <<>>, result |-> result]
BatchUpdate(requests, result) ==
    [call |-> "batchUpdate",
     requests |-> [i \in 1..Len(requests) |-> Summary(requests[i])],
     result |-> result]
CopyTo(result) ==
    [call |-> "copyTo", requests |-> <<[kind |-> "copyTo", phase |-> 0]>>, result |-> result]

\* ---- get_sheet_id_by_title / get_sheet_properties_by_title on the metadata
get_sheet_id_by_title(ss, title) ==
    IF \E sh \in ss : sh.title = title
    THEN (CHOOSE sh \in ss : sh.title = title).sheetId
    ELSE NoneId

NoProps == [found |-> FALSE, sheetId |-> NoneId, frozenRowCount |-> 0, frozenColumnCount |-> 0]
get_sheet_properties_by_title(ss, title) ==
    IF \E sh \in ss : sh.title = title
    THEN LET sh == CHOOSE x \in ss : x.title = title
         IN  [found |-> TRUE, sheetId |-> sh.sheetId,
              frozenRowCount |-> sh.frozenRowCount,
              frozenColumnCount |-> sh.frozenColumnCount]
    ELSE NoProps

\* =========================================================================
\* The chart translation of copy_sheet_from_excel (lines 705-760)
\* =========================================================================
\* emu_to_pixels: None (0 here) for no extent
emu_to_pixels(emu) == IF emu = 0 THEN 0 ELSE round(emu * 96, 914400)

\* The anchor of a chart is a one-cell anchor (with an extent), a two-cell
\* anchor (no ext attribute: the try block stops after the row and column)
\* or a plain coordinate string (the try block stops at once).
build_chart_position(chart, dest_sheet_id) ==
    LET anchor == chart.anchor
        placed == anchor.kind \in {"oneCell", "twoCell"}
        sized  == anchor.kind = "oneCell"
    IN  [anchorCell |-> [sheetId |-> dest_sheet_id,
                         rowIndex |-> IF placed THEN anchor.row ELSE 0,
                         columnIndex |-> IF placed THEN anchor.col ELSE 0],
         offsetXPixels |-> 0,
         offsetYPixels |-> 0,
         widthPixels |-> IF sized THEN emu_to_pixels(anchor.cx) ELSE 0,
         heightPixels |-> IF sized THEN emu_to_pixels(anchor.cy) ELSE 0]

build_line_chart_request(title, dest_sheet_id, position, domain_range, series_ranges, x_axis_title, y_axis_title, header_count) ==
    [kind |-> "addChart",
     title |-> title,
     chartType |-> "LINE",
     legendPosition |-> "RIGHT_LEGEND",
     axis |-> <<[position |-> "LEFT_AXIS", title |-> y_axis_title],
                [position |-> "BOTTOM_AXIS", title |-> x_axis_title]>>,
     domains |-> <<domain_range>>,
     series |-> [i \in 1..Len(series_ranges) |->
                    [sourceRange |-> series_ranges[i], targetAxis |-> "LEFT_AXIS"]],
     headerCount |-> header_count,
     position |-> position]

\* get_chart_title: the title text, "" when the chart has none
get_chart_title(chart) == chart.title

\* a reference the try block could not read or parse is None
ParsedOrNone(f) ==
    IF Len(f) = 0 THEN RefNone
    ELSE Only({ IF parsed.tag = "ok" THEN parsed ELSE RefNone :
                parsed \in {parse_range_reference(f)} })

get_series_title_cell(series) == ParsedOrNone(series.title_ref)
get_series_value_range(series) == ParsedOrNone(series.val)
get_series_category_range(series) ==
    ParsedOrNone(IF Len(series.cat_num) > 0 THEN series.cat_num ELSE series.cat_str)

title_axis_map == {"Net Sales (Last 8 Weeks)", "Sales vs Labor (Last 8 Weeks)"}
x_axis_title(chart_title) == "Week Ending"
y_axis_title(chart_title) ==
    IF chart_title = "Net Sales (Last 8 Weeks)" THEN "Sales" ELSE "Dollars"

\* "if allowed_chart_titles and chart_title not in allowed_chart_titles":
\* None and the empty set are both false
chart_filtered_out(allowed_chart_titles, chart_title) ==
    \/ (allowed_chart_titles.given /\ allowed_chart_titles.titles # {}
            /\ chart_title \notin allowed_chart_titles.titles)
    \/ chart_title \notin title_axis_map

\* The loop over chart.series.  acc holds series_ranges, domain_range (with
\* has_domain), header_count, and lookups: the titles get_sheet_id_by_title
\* was called with, in order.
NoRange == build_grid_range(NoneId, 0, 0, 0, 0)
SeriesStart == [series_ranges |-> <<>>, has_domain |-> FALSE, domain_range |-> NoRange,
                header_count |-> 0, lookups |-> <<>>]

series_refs(ss, acc, val_ref, cat_ref, title_ref) ==
    LET has_title == title_ref.tag = "ok"
        title_row == title_ref.start_row
        header_v  == has_title /\ title_row = val_ref.start_row - 1
        start_row == IF header_v THEN title_row ELSE val_ref.start_row
        header_c  == ~acc.has_domain /\ has_title /\ title_row = cat_ref.start_row - 1
        cat_start_row == IF header_c THEN title_row ELSE cat_ref.start_row
        header_count == IF header_v \/ header_c THEN 1 ELSE acc.header_count
        cat_id    == get_sheet_id_by_title(ss, cat_ref.sheet_name)
        val_id    == get_sheet_id_by_title(ss, val_ref.sheet_name)
        with_header == [acc EXCEPT !.header_count = header_count]
        with_domain ==
            IF acc.has_domain THEN with_header
            ELSE [with_header EXCEPT
                    !.lookups = Append(acc.lookups, cat_ref.sheet_name),
                    !.has_domain = (cat_id # NoneId),
                    !.domain_range =
                        IF cat_id = NoneId THEN acc.domain_range
                        ELSE build_grid_range(cat_id, cat_start_row, cat_ref.end_row,
                                              cat_ref.start_col, cat_ref.end_col)]
    IN  IF val_ref.tag # "ok" \/ cat_ref.tag # "ok" THEN acc
        ELSE IF ~acc.has_domain /\ cat_id = NoneId THEN with_domain
        ELSE [with_domain EXCEPT
                !.lookups = Append(with_domain.lookups, val_ref.sheet_name),
                !.series_ranges =
                    IF val_id = NoneId THEN acc.series_ranges
                    ELSE Append(acc.series_ranges,
                                build_grid_range(val_id, start_row, val_ref.end_row,
                                                 val_ref.start_col, val_ref.end_col))]

series_step(ss, acc, series) ==
    Only({ series_refs(ss, acc, val_ref, cat_ref, title_ref) :
           val_ref \in {get_series_value_range(series)},
           cat_ref \in {get_series_category_range(series)},
           title_ref \in {get_series_title_cell(series)} })

RECURSIVE series_loop(_, _, _)
series_loop(ss, acc, series_list) ==
    IF Len(series_list) = 0 THEN acc
    ELSE series_loop(ss, series_step(ss, acc, series_list[1]), Tail(series_list))

\* The loop over ws._charts: the addChart requests and the lookups made.
RECURSIVE chart_loop(_, _, _, _, _)
chart_loop(ss, charts, new_sheet_id, allowed_chart_titles, out) ==
    IF Len(charts) = 0 THEN out
    ELSE
      LET chart       == charts[1]
          chart_title == get_chart_title(chart)
          next ==
            IF chart_filtered_out(allowed_chart_titles, chart_title) THEN out
            ELSE Only({
                   [chart_requests |->
                      IF acc.has_domain /\ Len(acc.series_ranges) > 0
                      THEN Append(out.chart_requests,
                                  build_line_chart_request(
                                      chart_title, new_sheet_id,
                                      build_chart_position(chart, new_sheet_id),
                                      acc.domain_range, acc.series_ranges,
                                      x_axis_title(chart_title), y_axis_title(chart_title),
                                      acc.header_count))
                      ELSE out.chart_requests,
                    lookups |-> out.lookups \o acc.lookups] :
                   acc \in {series_loop(ss, SeriesStart, chart.series)} })
      IN  chart_loop(ss, Tail(charts), new_sheet_id, allowed_chart_titles, next)

build_chart_requests(ss, ws, new_sheet_id, allowed_chart_titles) ==
    chart_loop(ss, ws.charts, new_sheet_id, allowed_chart_titles,
               [chart_requests |-> <<>>, lookups |-> <<>>])

\* =========================================================================
\* copy_sheet_from_excel
\* =========================================================================

NetSalesChart ==
    [title |-> "Net Sales (Last 8 Weeks)",
     series |-> << [val |-> <<"'", "D", "a", "t", "a", "'", "!", "$", "B", "$", "2", ":", "$", "B", "$", "9">>,
                    cat_num |-> <<>>,
                    cat_str |-> <<"'", "D", "a", "t", "a", "'", "!", "$", "A", "$", "2", ":", "$", "A", "$", "9">>,
                    title_ref |-> <<"'", "D", "a", "t", "a", "'", "!", "$", "B", "$", "1">>] >>,
     anchor |-> [kind |-> "oneCell", row |-> 3, col |-> 1, cx |-> 5486400, cy |-> 2743200]]
UntitledChart ==
    [title |-> "",
     series |-> << [val |-> <<"'", "D", "a", "t", "a", "'", "!", "$", "B", "$", "2", ":", "$", "B", "$", "9">>, cat_num |-> <<"'", "D", "a", "t", "a", "'", "!", "$", "A", "$", "2", ":", "$", "A", "$", "9">>, cat_str |-> <<>>,
                    title_ref |-> <<>>] >>,
     anchor |-> [kind |-> "twoCell", row |-> 20, col |-> 1, cx |-> 0, cy |-> 0]]

\* the worksheets the copy is run on
DashboardSheet ==
    [title |-> <<"D", "a", "s", "h", "b", "o", "a", "r", "d">>, charts |-> <<NetSalesChart, UntitledChart>>]
        @@ Worksheet(2, 1, 0, FullDecoration)
PlainSheet ==
    [title |-> <<"N", "o", "t", "e", "s">>, charts |-> <<>>] @@ Worksheet(1, 1, 3, NoDecoration)

\* a second sheet whose name differs from that of PlainSheet by case only
ShoutedSheet == [PlainSheet EXCEPT !.title = <<"N", "O", "T", "E", "S">>]

\* the sheet main adds the chart of the last eight weeks to: a header row
\* and a row of data, and the chart 'Net Sales (Last 8 Weeks)'
AggregationSheet ==
    [title |-> <<"d", "a", "t", "a", "_", "a", "g", "g", "r", "e", "g", "a", "t", "i", "o", "n">>,
     charts |-> <<NetSalesChart>>] @@ Worksheet(2, 2, 0, NoDecoration)

\* the workbook, in the order of wb.sheetnames
Workbook == <<DashboardSheet, PlainSheet, ShoutedSheet, AggregationSheet>>

\* ---- resolve_sheet_name
\* str.lower() and str.strip() (on spaces)
Lower(chars) ==
    [i \in 1..Len(chars) |->
        IF \E k \in 1..26 : Alphabet[k] = chars[i]
        THEN LowerAlphabet[CHOOSE k \in 1..26 : Alphabet[k] = chars[i]]
        ELSE chars[i]]
normalized(name) == Lower(Strip(name, " "))

\* None, for a result that is a sheet name
NoName == <<"None">>

resolve_sheet_name(wb, requested_name) ==
    IF \E i \in 1..Len(wb) : wb[i].title = requested_name
    THEN requested_name
    ELSE LET matches == {i \in 1..Len(wb) : normalized(wb[i].title) = normalized(requested_name)}
         IN  IF matches = {} THEN NoName
             ELSE wb[CHOOSE i \in matches : \A j \in matches : i <= j].title

\* wb[source_sheet]
SheetNamed(wb, name) == wb[CHOOSE i \in 1..Len(wb) : wb[i].title = name]

\* the source names copy_sheet_from_excel is called with: the exact names of
\* three sheets, a name in another case with a space after it, and a name
\* the workbook does not have; and the names typed at the prompt
SourceRequests ==
    { DashboardSheet.title, PlainSheet.title, <<"n", "o", "t", "e", "s", " ">>,
      <<"N", "o", "p", "e">>, AggregationSheet.title }
RetryNames == { Blank, <<"n", "o", "t", "e", "s">>, <<"N", "o", "p", "e">> }

NoAllowList == [given |-> FALSE, titles |-> {}]
AllowList(titles) == [given |-> TRUE, titles |-> titles]

\* the calls of copy_sheet_from_excel the model makes: the chart-bearing
\* sheet with every choice of chart arguments, the plain sheet without charts
\* (main, lines 845-847), and 'data_aggregation' as main calls it (lines
\* 856-858: charts built, the one title allowed, no template)
ChartArgs ==
    { [build_charts |-> FALSE, allowed |-> NoAllowList],
      [build_charts |-> TRUE, allowed |-> NoAllowList],
      [build_charts |-> TRUE, allowed |-> AllowList({"Net Sales (Last 8 Weeks)"})],
      [build_charts |-> TRUE, allowed |-> AllowList({"Sales vs Labor (Last 8 Weeks)"})],
      [build_charts |-> TRUE, allowed |-> AllowList({})] }
CallArgs ==
    { call \in
        { [source_sheet |-> w, dest_sheet |-> d, chart_template_sheet |-> t,
           build_charts |-> c.build_charts, allowed_chart_titles |-> c.allowed] :
              w \in SourceRequests, d \in {Dash, Tmpl},
              t \in {Blank, Tmpl}, c \in ChartArgs } :
        /\ call.source_sheet \notin {DashboardSheet.title, AggregationSheet.title}
              => ~call.build_charts
        /\ call.source_sheet = AggregationSheet.title
              => /\ call.build_charts
                 /\ call.allowed_chart_titles = AllowList({"Net Sales (Last 8 Weeks)"})
                 /\ call.chart_template_sheet = Blank }

\* the names typed at the rename prompt: a title (taken or free, as the remote
\* spreadsheet has it) and the blank answer
RenameTitles == {Tmpl, Blank}

\* ---- the remote spreadsheet the program finds
\* Its sheets are some of Dash, Tmpl and Data.  The first sheet of a
\* spreadsheet has id 0, the others an id of their own; the template sheet
\* carries the charts and may have frozen panes.
FrozenChoices == { <<0, 0>>, <<2, 1>> }
LaterId(title) == CASE title = Dash -> 1 [] title = Tmpl -> 2 [] OTHER -> 3
InitialSheets(titles, first, frozen) ==
    { [NewSheet(IF title = first THEN 0 ELSE LaterId(title), title) EXCEPT
          !.frozenRowCount = IF title = Tmpl THEN frozen[1] ELSE 0,
          !.frozenColumnCount = IF title = Tmpl THEN frozen[2] ELSE 0,
          !.cells = Original,
          !.charts = IF title = Tmpl THEN <<"Net Sales (Last 8 Weeks)">> ELSE <<>>] :
        title \in titles }

NoLocals ==
    [existing_sheet_id |-> NoneId, new_sheet_id |-> NoneId, template_sheet_id |-> NoneId,
     template_sheet_props |-> NoProps, chart_requests |-> <<>>]

NoHistory ==
    [sheets0 |-> {}, previous |-> "idle", previous_sheets0 |-> {},
     overwritten |-> NoneId, rejected |-> 0, before_main |-> {}, warned |-> FALSE,
     asked_source |-> FALSE]

IdleMain ==
    /\ sheets = {} /\ nextId = 0 /\ log = <<>> /\ pc = "off" /\ run = 0
    /\ args = <<>> /\ worksheet = <<>> /\ dest_sheet = Blank
    /\ loc = NoLocals /\ prompts = 0 /\ hist = NoHistory

InitMain ==
    /\ \E titles \in (SUBSET {Dash, Tmpl, Data}) \ {{}} :
         \E first \in titles, frozen \in FrozenChoices :
            sheets = InitialSheets(titles, first, frozen)
    /\ nextId = 4
    /\ log = <<>>
    /\ pc = "idle"
    /\ run = 0
    /\ worksheet = <<>>
    /\ \E call \in CallArgs :
         /\ args = [source_sheet |-> call.source_sheet,
                    dest_sheet |-> call.dest_sheet,
                    chart_template_sheet |-> call.chart_template_sheet,
                    build_charts |-> call.build_charts,
                    allowed_chart_titles |-> call.allowed_chart_titles]
    /\ dest_sheet = Blank
    /\ loc = NoLocals
    /\ prompts = 0
    /\ hist = NoHistory

\* ---- the locals derived from template_sheet_props (lines 646-651)
frozen_row_count == loc.template_sheet_props.frozenRowCount
frozen_col_count == loc.template_sheet_props.frozenColumnCount
frozen_to_restore == frozen_row_count # 0 \/ frozen_col_count # 0

\* "not template_sheet_id": None and 0 are both false
not_template_sheet_id(template_sheet_id) == template_sheet_id = NoneId \/ template_sheet_id = 0

FrozenRequest(sheet_id, rows, cols) ==
    [kind |-> "updateSheetProperties", sheetId |-> sheet_id,
     frozenRowCount |-> rows, frozenColumnCount |-> cols,
     fields |-> "gridProperties.frozenRowCount,gridProperties.frozenColumnCount"]

\* where the run goes once a step is over
AfterCharts == IF frozen_to_restore THEN "restore" ELSE "done"
AfterMain ==
    IF args.build_charts /\ not_template_sheet_id(loc.template_sheet_id)
    THEN "charts" ELSE AfterCharts
\* the frozen panes of the copy are left as the template has them
AfterCreate_no_clear(props) == "main"
AfterCreate(props) ==
    IF props.frozenRowCount # 0 \/ props.frozenColumnCount # 0 THEN "clear" ELSE "main"

\* ---- the steps of copy_sheet_from_excel, one per remote call or prompt
\* copy_sheet_from_excel is called; the model follows a further call after
\* one that was skipped
StartCopy ==
    /\ pc \in {"idle", "skipped"}
    /\ run < MaxRuns
    /\ run' = run + 1
    /\ pc' = "resolve"
    /\ log' = <<>>
    /\ dest_sheet' = args.dest_sheet
    /\ loc' = NoLocals
    /\ prompts' = 0
    /\ hist' = [NoHistory EXCEPT !.sheets0 = sheets, !.previous = pc,
                                 !.previous_sheets0 = hist.sheets0]
    /\ UNCHANGED <<sheets, nextId, args, worksheet>>
    /\ UNCHANGED <<varsT, varsR, varsP>>

\* lines 585-586 and 597-598: the source sheet is resolved
ResolveSource ==
    /\ pc = "resolve"
    /\ \E resolved_sheet \in {resolve_sheet_name(Workbook, args.source_sheet)} :
          IF resolved_sheet # NoName
          THEN worksheet' = SheetNamed(Workbook, resolved_sheet) /\ pc' = "check"
          ELSE worksheet' = worksheet /\ pc' = "ask_source"
    /\ UNCHANGED <<sheets, nextId, log, run, args, dest_sheet, loc, prompts, hist>>
    /\ UNCHANGED <<varsT, varsR, varsP>>

\* lines 587-596: the name is asked for once; a blank answer or a name that
\* does not resolve ends the call
AskSource ==
    /\ pc = "ask_source"
    /\ \E retry_name \in RetryNames :
        \E resolved_sheet \in {resolve_sheet_name(Workbook, retry_name)} :
          IF retry_name # Blank /\ resolved_sheet # NoName
          THEN worksheet' = SheetNamed(Workbook, resolved_sheet) /\ pc' = "check"
          ELSE worksheet' = worksheet /\ pc' = "not_found"
    /\ hist' = [hist EXCEPT !.asked_source = TRUE]
    /\ UNCHANGED <<sheets, nextId, log, run, args, dest_sheet, loc, prompts>>
    /\ UNCHANGED <<varsT, varsR, varsP>>

\* line 601: existing_sheet_id = get_sheet_id_by_title(...)
CheckExisting ==
    /\ pc = "check"
    /\ \E result \in Results :
        LET existing_sheet_id == get_sheet_id_by_title(sheets, dest_sheet)
        IN  /\ log' = Append(log, Read("spreadsheets.get", result))
            /\ IF result = "ok"
               THEN /\ loc' = [loc EXCEPT !.existing_sheet_id = existing_sheet_id]
                    /\ pc' = IF existing_sheet_id = NoneId THEN "template" ELSE "prompt"
               ELSE /\ pc' = "raised"
                    /\ UNCHANGED loc
    /\ UNCHANGED <<sheets, nextId, run, args, worksheet, dest_sheet, prompts, hist>>
    /\ UNCHANGED <<varsT, varsR, varsP>>

\* overwrite leaves the loop without the deleteSheet call
ChooseOverwrite_keeps_sheet ==
    /\ pc = "prompt"
    /\ hist' = [hist EXCEPT !.overwritten = loc.existing_sheet_id]
    /\ pc' = "template"
    /\ prompts' = prompts + 1
    /\ UNCHANGED <<sheets, nextId, log, run, args, worksheet, dest_sheet, loc>>
    /\ UNCHANGED <<varsT, varsR, varsP>>

\* lines 606-611: overwrite deletes the existing sheet
ChooseOverwrite ==
    /\ pc = "prompt"
    /\ \E result \in Results :
        LET requests == <<[kind |-> "deleteSheet", sheetId |-> loc.existing_sheet_id]>>
        IN  /\ log' = Append(log, BatchUpdate(requests, result))
            /\ IF result = "ok"
               THEN /\ sheets' = ApplyBatch(sheets, requests, NoneId)
                    /\ hist' = [hist EXCEPT !.overwritten = loc.existing_sheet_id]
                    /\ pc' = "template"
               ELSE /\ pc' = "raised"
                    /\ UNCHANGED <<sheets, hist>>
    /\ prompts' = prompts + 1
    /\ UNCHANGED <<nextId, run, args, worksheet, dest_sheet, loc>>
    /\ UNCHANGED <<varsT, varsR, varsP>>

\* rename leaves the loop with the new name, which is not looked up
ChooseRename_no_recheck ==
    /\ pc = "prompt"
    /\ prompts < MaxPrompts
    /\ \E name \in RenameTitles : dest_sheet' = name
    /\ pc' = "template"
    /\ prompts' = prompts + 1
    /\ UNCHANGED <<sheets, nextId, log, run, args, worksheet, loc, hist>>
    /\ UNCHANGED <<varsT, varsR, varsP>>

\* lines 612-617: rename asks for a name and goes round the loop, blank or not
ChooseRename ==
    /\ pc = "prompt"
    /\ prompts < MaxPrompts
    /\ \E name \in RenameTitles : dest_sheet' = name
    /\ pc' = "check"
    /\ prompts' = prompts + 1
    /\ UNCHANGED <<sheets, nextId, log, run, args, worksheet, loc, hist>>
    /\ UNCHANGED <<varsT, varsR, varsP>>

\* the deleteSheet call of the overwrite branch is made before the answer
\* is looked at
ChooseSkip_after_delete ==
    /\ pc = "prompt"
    /\ \E requests \in {<<[kind |-> "deleteSheet", sheetId |-> loc.existing_sheet_id]>>} :
        /\ log' = Append(log, BatchUpdate(requests, "ok"))
        /\ sheets' = ApplyBatch(sheets, requests, NoneId)
    /\ pc' = "skipped"
    /\ prompts' = prompts + 1
    /\ UNCHANGED <<nextId, run, args, worksheet, dest_sheet, loc, hist>>
    /\ UNCHANGED <<varsT, varsR, varsP>>

\* lines 618-620: skip returns None
ChooseSkip ==
    /\ pc = "prompt"
    /\ pc' = "skipped"
    /\ prompts' = prompts + 1
    /\ UNCHANGED <<sheets, nextId, log, run, args, worksheet, dest_sheet, loc, hist>>
    /\ UNCHANGED <<varsT, varsR, varsP>>

\* line 621: any other answer goes round the loop
ChooseInvalid ==
    /\ pc = "prompt"
    /\ prompts < MaxPrompts
    /\ pc' = "check"
    /\ prompts' = prompts + 1
    /\ UNCHANGED <<sheets, nextId, log, run, args, worksheet, dest_sheet, loc, hist>>
    /\ UNCHANGED <<varsT, varsR, varsP>>

\* lines 623-629: the template is looked up only when one is named
LookupTemplate ==
    /\ pc = "template"
    /\ IF args.chart_template_sheet = Blank
       THEN /\ pc' = "create"
            /\ UNCHANGED <<log, loc>>
       ELSE \E result \in Results :
              LET props == get_sheet_properties_by_title(sheets, args.chart_template_sheet)
              IN  /\ log' = Append(log, Read("spreadsheets.get", result))
                  /\ IF result = "ok"
                     THEN /\ loc' = [loc EXCEPT !.template_sheet_props = props,
                                                !.template_sheet_id = props.sheetId]
                          /\ pc' = "create"
                     ELSE /\ pc' = "raised"
                          /\ UNCHANGED loc
    /\ UNCHANGED <<sheets, nextId, run, args, worksheet, dest_sheet, prompts, hist>>
    /\ UNCHANGED <<varsT, varsR, varsP>>

\* duplicate_sheet, first call (lines 497-503): copyTo
DuplicateCopyTo ==
    /\ pc = "create"
    /\ loc.template_sheet_id # NoneId
    /\ \E result \in Results :
        /\ log' = Append(log, CopyTo(result))
        /\ IF result = "ok"
           THEN /\ sheets' = CopySheet(sheets, loc.template_sheet_id, nextId)
                /\ nextId' = nextId + 1
                /\ loc' = [loc EXCEPT !.new_sheet_id = nextId]
                /\ pc' = "rename_copy"
           ELSE /\ pc' = "raised"
                /\ UNCHANGED <<sheets, nextId, loc>>
    /\ UNCHANGED <<run, args, worksheet, dest_sheet, prompts, hist>>
    /\ UNCHANGED <<varsT, varsR, varsP>>

\* duplicate_sheet, second call (lines 504-515): the copy takes the title
DuplicateRename ==
    /\ pc = "rename_copy"
    /\ \E result \in Results :
        LET requests == <<[kind |-> "updateSheetProperties", sheetId |-> loc.new_sheet_id,
                           title |-> dest_sheet, fields |-> "title"]>>
        IN  /\ log' = Append(log, BatchUpdate(requests, result))
            /\ IF result = "ok"
               THEN /\ sheets' = ApplyBatch(sheets, requests, NoneId)
                    /\ pc' = AfterCreate(loc.template_sheet_props)
               ELSE /\ pc' = "raised"
                    /\ UNCHANGED sheets
    /\ UNCHANGED <<nextId, run, args, worksheet, dest_sheet, loc, prompts, hist>>
    /\ UNCHANGED <<varsT, varsR, varsP>>

\* lines 633-642: addSheet
AddSheet ==
    /\ pc = "create"
    /\ loc.template_sheet_id = NoneId
    /\ \E result \in Results :
        LET requests == <<[kind |-> "addSheet", title |-> dest_sheet]>>
        IN  /\ log' = Append(log, BatchUpdate(requests, result))
            /\ IF result = "ok"
               THEN /\ sheets' = ApplyBatch(sheets, requests, nextId)
                    /\ nextId' = nextId + 1
                    /\ loc' = [loc EXCEPT !.new_sheet_id = nextId]
                    /\ pc' = AfterCreate(loc.template_sheet_props)
               ELSE /\ pc' = "raised"
                    /\ UNCHANGED <<sheets, nextId, loc>>
    /\ UNCHANGED <<run, args, worksheet, dest_sheet, prompts, hist>>
    /\ UNCHANGED <<varsT, varsR, varsP>>

\* lines 652-671: the frozen panes of the copy are cleared before the resize
ClearFrozen ==
    /\ pc = "clear"
    /\ \E result \in Results :
        LET requests == <<FrozenRequest(loc.new_sheet_id, 0, 0)>>
        IN  /\ log' = Append(log, BatchUpdate(requests, result))
            /\ IF result = "ok"
               THEN /\ sheets' = ApplyBatch(sheets, requests, NoneId)
                    /\ pc' = "main"
                    /\ UNCHANGED hist
               ELSE /\ pc' = "raised"
                    /\ hist' = [hist EXCEPT !.rejected = 1]
                    /\ UNCHANGED sheets
    /\ UNCHANGED <<nextId, run, args, worksheet, dest_sheet, loc, prompts>>
    /\ UNCHANGED <<varsT, varsR, varsP>>

\* lines 673-703: the main batch goes out in one batchUpdate and is applied
SubmitMain ==
    /\ pc = "main"
    /\ \E requests \in {main_requests(worksheet, loc.new_sheet_id)} :
           /\ log' = Append(log, BatchUpdate(requests, "ok"))
           /\ sheets' = ApplyBatch(sheets, requests, NoneId)
    /\ pc' = AfterMain
    /\ hist' = [hist EXCEPT !.before_main = sheets]
    /\ UNCHANGED <<nextId, run, args, worksheet, dest_sheet, loc, prompts>>
    /\ UNCHANGED <<varsT, varsR, varsP>>

\* ... or the service rejects it, over one of its requests: nothing of the
\* batch is applied and the HttpError leaves copy_sheet_from_excel
MainRejected ==
    /\ pc = "main"
    /\ \E requests \in {main_requests(worksheet, loc.new_sheet_id)} :
         \E result \in Failures, k \in 1..Len(requests) :
            /\ log' = Append(log, BatchUpdate(requests, result))
            /\ hist' = [hist EXCEPT !.before_main = sheets,
                                    !.rejected = RequestPhase(requests[k])]
    /\ pc' = "raised"
    /\ UNCHANGED <<sheets, nextId, run, args, worksheet, dest_sheet, loc, prompts>>
    /\ UNCHANGED <<varsT, varsR, varsP>>

\* the reads of the chart loop: one spreadsheets.get per lookup
Reads(n, result) == [i \in 1..n |-> Read("spreadsheets.get", result)]

\* lines 705-760: the chart requests are built, every lookup answered
BuildCharts ==
    /\ pc = "charts"
    /\ \E built \in {build_chart_requests(sheets, worksheet, loc.new_sheet_id,
                                           args.allowed_chart_titles)} :
           /\ log' = log \o Reads(Len(built.lookups), "ok")
           /\ loc' = [loc EXCEPT !.chart_requests = built.chart_requests]
           /\ pc' = IF Len(built.chart_requests) > 0 THEN "add_charts" ELSE AfterCharts
    /\ UNCHANGED <<sheets, nextId, run, args, worksheet, dest_sheet, prompts, hist>>
    /\ UNCHANGED <<varsT, varsR, varsP>>

\* ... or one of the lookups fails
BuildChartsFails ==
    /\ pc = "charts"
    /\ \E built \in {build_chart_requests(sheets, worksheet, loc.new_sheet_id,
                                           args.allowed_chart_titles)} :
         \E k \in 1..Len(built.lookups), result \in Failures :
            log' = log \o Reads(k - 1, "ok") \o Reads(1, result)
    /\ pc' = "raised"
    /\ UNCHANGED <<sheets, nextId, run, args, worksheet, dest_sheet, loc, prompts, hist>>
    /\ UNCHANGED <<varsT, varsR, varsP>>

\* lines 762-765: the charts go out in a batchUpdate of their own
SubmitCharts ==
    /\ pc = "add_charts"
    /\ \E result \in Results :
        /\ log' = Append(log, BatchUpdate(loc.chart_requests, result))
        /\ IF result = "ok"
           THEN /\ sheets' = ApplyBatch(sheets, loc.chart_requests, NoneId)
                /\ pc' = AfterCharts
                /\ UNCHANGED hist
           ELSE /\ pc' = "raised"
                /\ hist' = [hist EXCEPT !.rejected = 6]
                /\ UNCHANGED sheets
    /\ UNCHANGED <<nextId, run, args, worksheet, dest_sheet, loc, prompts>>
    /\ UNCHANGED <<varsT, varsR, varsP>>

\* lines 767-789: the frozen panes are restored; "except HttpError" turns
\* an HttpError into a warning, any other exception leaves the function
RestoreFrozen ==
    /\ pc = "restore"
    /\ \E result \in Results :
        LET requests == <<FrozenRequest(loc.new_sheet_id, frozen_row_count, frozen_col_count)>>
        IN  /\ log' = Append(log, BatchUpdate(requests, result))
            /\ IF result = "ok"
               THEN /\ sheets' = ApplyBatch(sheets, requests, NoneId)
                    /\ UNCHANGED hist
                    /\ pc' = "done"
               ELSE IF result \in HttpErrors
               THEN /\ hist' = [hist EXCEPT !.rejected = 7, !.warned = TRUE]
                    /\ UNCHANGED sheets
                    /\ pc' = "done"
               ELSE /\ hist' = [hist EXCEPT !.rejected = 7]
                    /\ UNCHANGED sheets
                    /\ pc' = "raised"
    /\ UNCHANGED <<nextId, run, args, worksheet, dest_sheet, loc, prompts>>
    /\ UNCHANGED <<varsT, varsR, varsP>>

\* ---- main, lines 871-877: the chart of the last eight weeks
\* values().get of columns A:B of the sheet of that title: its rows, each a
\* list of cells that hold a value or not
values_get(ss, sheet_title) ==
    IF \E sh \in ss : sh.title = sheet_title
    THEN (CHOOSE sh \in ss : sh.title = sheet_title).cells
    ELSE <<>>

\* find_last_n_data_rows: the first and the last of the last n rows, from
\* start_row on, that hold a value in one of their first max_cols cells
NoRows == [found |-> FALSE, first |-> 0, last |-> 0]
find_last_n_data_rows(values, n, start_row, max_cols) ==
    LET rows_with_data ==
            { idx \in start_row..Len(values) :
                \E c \in 1..Len(values[idx].values) :
                    c <= max_cols /\ values[idx].values[c].hasValue }
        kept == IF Cardinality(rows_with_data) < n THEN Cardinality(rows_with_data) ELSE n
    IN  IF rows_with_data = {} THEN NoRows
        ELSE [found |-> TRUE,
              first |-> CHOOSE x \in rows_with_data :
                            Cardinality({y \in rows_with_data : y >= x}) = kept,
              last  |-> CHOOSE x \in rows_with_data : \A y \in rows_with_data : y <= x]

\* lines 546-568: the request of the chart over the rows found
net_sales_chart_request(sheet_id, row_range) ==
    build_line_chart_request(
        "Net Sales (Last 8 Weeks)", sheet_id,
        [anchorCell |-> [sheetId |-> sheet_id, rowIndex |-> row_range.last + 1,
                         columnIndex |-> 0],
         offsetXPixels |-> 0, offsetYPixels |-> 0,
         widthPixels |-> 850, heightPixels |-> 360],
        build_grid_range(sheet_id, row_range.first, row_range.last, 1, 1),
        <<build_grid_range(sheet_id, row_range.first, row_range.last, 2, 2)>>,
        "Week Ending", "Sales", 0)

\* "if sheet_id and source_sheet.strip().lower() == 'data_aggregation'"
wants_net_sales_chart(sheet_id, source_sheet) ==
    /\ sheet_id # NoneId /\ sheet_id # 0
    /\ normalized(source_sheet) = AggregationSheet.title

\* lines 539-545: the values of the new sheet are read; without a row of
\* data the chart is skipped
ReadNetSalesValues ==
    /\ pc = "done"
    /\ wants_net_sales_chart(loc.new_sheet_id, worksheet.title)
    /\ \E result \in Results :
        /\ log' = Append(log, Read("values.get", result))
        /\ pc' = IF result # "ok" THEN "raised"
                 ELSE IF find_last_n_data_rows(values_get(sheets, dest_sheet), 8, 2, 2).found
                 THEN "net_sales" ELSE "finished"
    /\ UNCHANGED <<sheets, nextId, run, args, worksheet, dest_sheet, loc, prompts, hist>>
    /\ UNCHANGED <<varsT, varsR, varsP>>

\* lines 546-572: the chart is added to the new sheet
AddNetSalesChart ==
    /\ pc = "net_sales"
    /\ \E result \in Results :
        \E row_range \in {find_last_n_data_rows(values_get(sheets, dest_sheet), 8, 2, 2)} :
        LET requests == <<net_sales_chart_request(loc.new_sheet_id, row_range)>>
        IN  /\ log' = Append(log, BatchUpdate(requests, result))
            /\ IF result = "ok"
               THEN sheets' = ApplyBatch(sheets, requests, NoneId) /\ pc' = "finished"
               ELSE sheets' = sheets /\ pc' = "raised"
    /\ UNCHANGED <<nextId, run, args, worksheet, dest_sheet, loc, prompts, hist>>
    /\ UNCHANGED <<varsT, varsR, varsP>>

NextMain ==
    \/ StartCopy
    \/ ResolveSource
    \/ AskSource
    \/ CheckExisting
    \/ ChooseOverwrite
    \/ ChooseRename
    \/ ChooseSkip
    \/ ChooseInvalid
    \/ LookupTemplate
    \/ DuplicateCopyTo
    \/ DuplicateRename
    \/ AddSheet
    \/ ClearFrozen
    \/ SubmitMain
    \/ MainRejected
    \/ BuildCharts
    \/ BuildChartsFails
    \/ SubmitCharts
    \/ RestoreFrozen
    \/ ReadNetSalesValues
    \/ AddNetSalesChart

\* =========================================================================
\* The helper functions, each called on its own
\* =========================================================================
IdlePure == p_pc = "off" /\ p_fn = "" /\ p_arg = <<>> /\ p_result = <<>>

\* ---- the colour strings rgb_to_color is called with: an optional "#" or
\* "0x" in front, up to MaxPairs pairs of characters, an optional odd
\* character at the end
MaxPairs == 4
ColourPairs == { <<"0", "0">>, <<"F", "F">>, <<"8", "0">>, <<"1", "a">>,
                 <<"0", "x">>, <<"G", "0">> }
ColourPrefixes == { <<>>, <<"#">>, <<"0", "x">> }
ColourTails == { <<>>, <<"F">> }

RECURSIVE PairStrings(_)
PairStrings(k) ==
    IF k = 0 THEN { <<>> }
    ELSE { s \o pair : s \in PairStrings(k - 1), pair \in ColourPairs }

ColourStrings ==
    { prefix \o body \o tail :
        prefix \in ColourPrefixes,
        body \in UNION { PairStrings(k) : k \in 0..MaxPairs },
        tail \in ColourTails }

\* ---- the sizes convert_dimension_size_to_pixels is called with: the
\* eighths up to MaxEighths/8, and the sizes Excel gives a fresh sheet
MaxEighths == 24
DimensionSizes ==
    { [num |-> n, den |-> 8] : n \in 1..MaxEighths }
        \cup { [num |-> 15, den |-> 1], [num |-> 843, den |-> 100] }

\* ---- the dimensions build_dimension_requests is called with: columns A and
\* B and rows 1 and 2, each with a size or with none (0)
SomeSizes == { [num |-> 0, den |-> 1], [num |-> 843, den |-> 100], [num |-> 15, den |-> 1],
               [num |-> 3, den |-> 8] }
ColumnDimensions ==
    { <<>> } \cup { << [letter |-> <<"A">>, width |-> w] >> : w \in SomeSizes }
        \cup { << [letter |-> <<"A">>, width |-> w], [letter |-> <<"B">>, width |-> v] >> :
                 w \in SomeSizes, v \in SomeSizes }
RowDimensions ==
    { <<>> } \cup { << [row_idx |-> 1, height |-> h] >> : h \in SomeSizes }
        \cup { << [row_idx |-> 1, height |-> h], [row_idx |-> 2, height |-> g] >> :
                 h \in SomeSizes, g \in SomeSizes }

\* ---- the references parse_range_reference is called with: a sheet part
\* (plain, quoted, or none at all) and one or two cell tokens, well formed
\* ($B$2, AA10), whole-column or whole-row (B, 2), in R1C1 notation (R2C2),
\* reversed (2B), with a stray character (B2x) or with too many letters
CellTokens ==
    { <<"$", "B", "$", "2">>, <<"$", "B", "$", "9">>, <<"B", "2">>, <<"A", "A", "1", "0">>,
      <<"Z", "1">>, <<"B">>, <<"2">>, <<"2", "B">>, <<"B", "2", "x">>,
      <<"R", "2", "C", "2">>, <<"A", "B", "C", "D", "1">>, <<>> }
SheetParts ==
    { <<"S", "h", "e", "e", "t", "1", "!">>, <<"'", "D", "a", "t", "a", "'", "!">>, <<>> }
RangeReferences ==
    { sheet \o start : sheet \in SheetParts, start \in CellTokens }
        \cup { sheet \o start \o <<":">> \o end :
                 sheet \in SheetParts, start \in CellTokens, end \in CellTokens }

\* ---- the charts the chart loop is run on: one line chart of the title
\* map with up to MaxSeries series; the values of a series are in column B
\* of 'Data' from row 2 or 3, its categories in column A from row 2 or 3,
\* its title cell is B1, B2 or B5 or there is none
MaxSeries == 2
DataRange(col, first, last) ==
    <<"'", "D", "a", "t", "a", "'", "!", "$", col, "$", Digits[first + 1], ":",
      "$", col, "$", Digits[last + 1]>>
DataCell(col, row) ==
    <<"'", "D", "a", "t", "a", "'", "!", "$", col, "$", Digits[row + 1]>>
SeriesChoices ==
    { [val |-> DataRange("B", v, 9), cat_num |-> <<>>, cat_str |-> DataRange("A", c, 9),
       title_ref |-> t] :
        v \in {2, 3}, c \in {2, 3},
        t \in { <<>>, DataCell("B", 1), DataCell("B", 2), DataCell("B", 5) } }
SeriesLists == UNION { [1..n -> SeriesChoices] : n \in 1..MaxSeries }
ChartSheets ==
    { [charts |-> << [NetSalesChart EXCEPT !.series = series_list] >>] :
        series_list \in SeriesLists }
DataSpreadsheet == InitialSheets({Dash, Data}, Dash, <<0, 0>>)

CalledPure ==
    /\ p_pc = "called"
    /\ \/ p_fn = "rgb_to_color" /\ p_arg \in ColourStrings
       \/ /\ p_fn = "convert_dimension_size_to_pixels"
          /\ p_arg \in [value : DimensionSizes, is_row : BOOLEAN]
       \/ p_fn = "parse_range_reference" /\ p_arg \in RangeReferences
       \/ /\ p_fn = "chart_requests"
          /\ p_arg \in [ss : {DataSpreadsheet}, ws : ChartSheets, new_sheet_id : {4},
                         allowed_chart_titles : {NoAllowList}]
       \/ /\ p_fn = "build_dimension_requests"
          /\ p_arg \in [column_dimensions : ColumnDimensions,
                         row_dimensions : RowDimensions, sheet_id : SheetIds]
    /\ p_result = <<>>

Apply_rgb_to_color ==
    /\ p_pc = "called" /\ p_fn = "rgb_to_color"
    /\ p_result' = rgb_to_color(p_arg)
    /\ p_pc' = "returned"
    /\ UNCHANGED <<p_fn, p_arg>>
    /\ UNCHANGED <<varsT, varsR, varsM>>

Apply_convert_dimension_size_to_pixels ==
    /\ p_pc = "called" /\ p_fn = "convert_dimension_size_to_pixels"
    /\ p_result' = convert_dimension_size_to_pixels(p_arg.value, p_arg.is_row)
    /\ p_pc' = "returned"
    /\ UNCHANGED <<p_fn, p_arg>>
    /\ UNCHANGED <<varsT, varsR, varsM>>

Apply_build_dimension_requests ==
    /\ p_pc = "called" /\ p_fn = "build_dimension_requests"
    /\ p_result' = build_dimension_requests(p_arg, p_arg.sheet_id)
    /\ p_pc' = "returned"
    /\ UNCHANGED <<p_fn, p_arg>>
    /\ UNCHANGED <<varsT, varsR, varsM>>

Apply_parse_range_reference ==
    /\ p_pc = "called" /\ p_fn = "parse_range_reference"
    /\ p_result' = parse_range_reference(p_arg)
    /\ p_pc' = "returned"
    /\ UNCHANGED <<p_fn, p_arg>>
    /\ UNCHANGED <<varsT, varsR, varsM>>

\* copy_sheet_from_excel, lines 706-760: the chart requests of a worksheet
Apply_chart_requests ==
    /\ p_pc = "called" /\ p_fn = "chart_requests"
    /\ p_result' = build_chart_requests(p_arg.ss, p_arg.ws, p_arg.new_sheet_id,
                                        p_arg.allowed_chart_titles).chart_requests
    /\ p_pc' = "returned"
    /\ UNCHANGED <<p_fn, p_arg>>
    /\ UNCHANGED <<varsT, varsR, varsM>>

NextPure ==
    \/ Apply_rgb_to_color
    \/ Apply_chart_requests
    \/ Apply_parse_range_reference
    \/ Apply_convert_dimension_size_to_pixels
    \/ Apply_build_dimension_requests

\* =========================================================================
\* Specifications
\* =========================================================================
\* the copy of a worksheet into the remote spreadsheet
Init == InitMain /\ IdleTranslate /\ IdleRetry /\ IdlePure
Spec == Init /\ [][NextMain]_vars

\* the translation of a worksheet into the requests of the main batch
InitTranslate == LoadedWorksheet /\ IdleRetry /\ IdleMain /\ IdlePure
SpecTranslate == InitTranslate /\ [][NextTranslate]_vars

\* the retry helpers of csv_to_sheets.py
InitRetry == EnteredHelper /\ IdleTranslate /\ IdleMain /\ IdlePure
SpecRetry == InitRetry /\ [][NextRetry]_vars

\* the helper functions
InitPure == CalledPure /\ IdleTranslate /\ IdleRetry /\ IdleMain
SpecPure == InitPure /\ [][NextPure]_vars

\* =========================================================================
\* Properties of copy_sheet_from_excel
\* =========================================================================
LastCall == log[Len(log)]
Mutating(call) == call.call \in {"batchUpdate", "copyTo"}
Bearing(title) == {sh \in sheets : sh.title = title}

\* the phases of the requests submitted so far, in the order of submission
RECURSIVE SubmittedPhases(_)
SubmittedPhases(calls) ==
    IF Len(calls) = 0 THEN <<>>
    ELSE [i \in 1..Len(calls[1].requests) |-> calls[1].requests[i].phase]
            \o SubmittedPhases(Tail(calls))
PhasesSoFar == SelectSeq(SubmittedPhases(log), LAMBDA p : p >= 1)

\* C1: a run that ends with skip has made no mutating remote call (no
\* batchUpdate, no copyTo) and leaves the remote sheets as they were when it
\* started; when the run before it ended with skip too, the sheets are still
\* those the first of the two runs found.
C1_SkipMutatesNothing ==
    pc = "skipped" =>
        /\ \A i \in 1..Len(log) : ~Mutating(log[i])
        /\ sheets = hist.sheets0
        /\ (hist.previous = "skipped" => sheets = hist.previous_sheets0)

C1_Witness ==
    /\ pc = "skipped" /\ hist.previous = "skipped" /\ run = 2
    /\ Len(log) > 0 /\ Bearing(dest_sheet) # {}

\* C2: when the conflict was resolved with overwrite and the copy has
\* completed, exactly one remote sheet bears the destination title; it is
\* the new sheet, and its id is not the id of the sheet that was overwritten.
C2_OverwriteLeavesOneFreshSheet ==
    (pc = "done" /\ hist.overwritten # NoneId) =>
        /\ Cardinality(Bearing(dest_sheet)) = 1
        /\ \A sh \in Bearing(dest_sheet) :
              sh.sheetId = loc.new_sheet_id /\ sh.sheetId # hist.overwritten

C2_Witness ==
    /\ pc = "done" /\ hist.overwritten # NoneId
    /\ loc.template_sheet_id # NoneId
    /\ \E call \in {log[i] : i \in 1..Len(log)} : call.call = "copyTo"

\* C3: the requests are submitted in the order of their phases: grid size
\* (with the clearing of the frozen panes), updateCells, dimension sizes,
\* merges, conditional formats, charts, restoration of the frozen panes.
C3_PhasesInOrder ==
    \A i, j \in 1..Len(PhasesSoFar) : i < j => PhasesSoFar[i] <= PhasesSoFar[j]

C3_Witness ==
    /\ pc = "done"
    /\ \A p \in 1..7 : \E i \in 1..Len(PhasesSoFar) : PhasesSoFar[i] = p

\* C4: when the service has rejected a request of a later phase (dimension
\* sizes, merges, conditional formats, charts, restoration of the frozen
\* panes), the destination sheet has the grid size and the cells of the
\* earlier phases.
C4_AsStated ==
    hist.rejected \in 3..7 =>
        \E sh \in sheets :
            /\ sh.sheetId = loc.new_sheet_id
            /\ sh.rowCount = build_rows(worksheet).max_row
            /\ sh.columnCount = build_rows(worksheet).max_col
            /\ sh.cells = build_rows(worksheet).rows_data

\* C5: whenever the destination was created by duplicating a template, no
\* addChart request has been submitted.
C5_AsStated ==
    loc.template_sheet_id # NoneId =>
        \A i \in 1..Len(log) : \A k \in 1..Len(log[i].requests) :
            log[i].requests[k].kind # "addChart"

\* C6: the copy does not abort on the first rate-limited failure of a remote
\* call: when an HTTP 429 has ended the run, the call had been attempted
\* before.
C6_AsStated ==
    (pc = "raised" /\ LastCall.result = "http429") =>
        /\ Len(log) >= 2
        /\ log[Len(log) - 1] = LastCall

\* =========================================================================
\* Properties of the helper functions
\* =========================================================================
Returned(fn) == p_pc = "returned" /\ p_fn = fn

\* what is left of a colour string once "0x" and "#" are removed and the
\* alpha pair of an eight-character string is dropped
Remaining(rgb) ==
    LET stripped == RemoveChar(RemovePair(rgb, "0", "x"), "#")
    IN  IF Len(stripped) = 8 THEN SubSeq(stripped, 3, 8) ELSE stripped

AllHex(chars) == \A i \in 1..Len(chars) : IsHexChar(chars[i])

\* C11: rgb_to_color removes "0x" and "#" and drops the first two characters
\* of an eight-character string; when what remains is not six characters long
\* the result is absent; when it is six hex digits the result is the three
\* two-digit pairs over 255; "FFFF0000" gives red 1, green 0, blue 0 and "00"
\* gives absent.
C11_ColorFromHex ==
    Returned("rgb_to_color") =>
        LET rest == Remaining(p_arg)
        IN  /\ (Len(rest) # 6 => p_result = ColorNone)
            /\ (Len(rest) = 6 /\ AllHex(rest) =>
                  /\ p_result.tag = "color"
                  /\ p_result.red = 16 * HexVal(rest[1]) + HexVal(rest[2])
                  /\ p_result.green = 16 * HexVal(rest[3]) + HexVal(rest[4])
                  /\ p_result.blue = 16 * HexVal(rest[5]) + HexVal(rest[6])
                  /\ p_result.red \in 0..255 /\ p_result.green \in 0..255
                  /\ p_result.blue \in 0..255)
            /\ (p_arg = <<"F", "F", "F", "F", "0", "0", "0", "0">> =>
                  p_result = [tag |-> "color", red |-> 255, green |-> 0, blue |-> 0])
            /\ (p_arg = <<"0", "0">> => p_result = ColorNone)

C11_Witness ==
    /\ Returned("rgb_to_color")
    /\ p_arg = <<"F", "F", "F", "F", "0", "0", "0", "0">>
    /\ p_result.tag = "color" /\ p_result.red = 255 /\ p_result.blue = 0

\* pixels is a whole number nearest to n/d
Nearest(pixels, n, d) ==
    /\ 2 * (pixels * d - n) <= d
    /\ 2 * (n - pixels * d) <= d

\* the dimensions of the argument that have no size, as (dimension, index)
Unsized ==
    { <<"COLUMNS", column_index_from_string(p_arg.column_dimensions[i].letter) - 1>> :
        i \in { k \in 1..Len(p_arg.column_dimensions) :
                  p_arg.column_dimensions[k].width.num = 0 } }
    \cup
    { <<"ROWS", p_arg.row_dimensions[i].row_idx - 1>> :
        i \in { k \in 1..Len(p_arg.row_dimensions) : p_arg.row_dimensions[k].height.num = 0 } }

\* the rounding and the no-size parts of C12, which hold as stated
C12_Rounding ==
    /\ Returned("convert_dimension_size_to_pixels") =>
          /\ (p_arg.is_row =>
                Nearest(p_result, p_arg.value.num * 96, p_arg.value.den * 72))
          /\ (~p_arg.is_row =>
                Nearest(p_result, p_arg.value.num * 7 + 5 * p_arg.value.den, p_arg.value.den))
          /\ (p_arg.is_row /\ p_arg.value = [num |-> 15, den |-> 1] => p_result = 20)
    /\ Returned("build_dimension_requests") =>
          /\ \A i \in 1..Len(p_result) :
                /\ p_result[i].kind = "updateDimensionProperties"
                /\ <<p_result[i].range.dimension, p_result[i].range.startIndex>> \notin Unsized
          /\ (Unsized # {} =>
                Len(p_result) < Len(p_arg.column_dimensions) + Len(p_arg.row_dimensions))

\* C12 as stated: a row height h gives round(h*96/72), a column width w gives
\* round(w*7+5); row height 15 gives 20 and column width 8.43 gives 65; a
\* dimension with no size gives no updateDimensionProperties request.
C12_AsStated ==
    /\ C12_Rounding
    /\ (/\ Returned("convert_dimension_size_to_pixels")
        /\ ~p_arg.is_row /\ p_arg.value = [num |-> 843, den |-> 100]) => p_result = 65

\* C12 (amended): a row height h gives round(h*96/72), a column width w gives
\* round(w*7+5); row height 15 gives 20 and column width 8.43 gives 64; a
\* dimension with no size gives no updateDimensionProperties request.
C12_DimensionPixels ==
    /\ C12_Rounding
    /\ (/\ Returned("convert_dimension_size_to_pixels")
        /\ ~p_arg.is_row /\ p_arg.value = [num |-> 843, den |-> 100]) => p_result = 64

C12_Witness ==
    /\ Returned("convert_dimension_size_to_pixels")
    /\ ~p_arg.is_row /\ p_arg.value = [num |-> 843, den |-> 100]
    /\ p_result = 64

\* ---- a reference read as the claim reads it: Sheet!Start:End
HasBang(ref) == IndexOf(ref, "!") # 0
SheetPart(ref) == SubSeq(ref, 1, IndexOf(ref, "!") - 1)
CellPart(ref) == SubSeq(ref, IndexOf(ref, "!") + 1, Len(ref))
StartToken(ref) ==
    IF IndexOf(CellPart(ref), ":") = 0 THEN CellPart(ref)
    ELSE SubSeq(CellPart(ref), 1, IndexOf(CellPart(ref), ":") - 1)
EndToken(ref) ==
    IF IndexOf(CellPart(ref), ":") = 0 THEN CellPart(ref)
    ELSE SubSeq(CellPart(ref), IndexOf(CellPart(ref), ":") + 1, Len(CellPart(ref)))

\* the number of letters a token starts with
RECURSIVE LeadingLetters(_)
LeadingLetters(chars) ==
    IF Len(chars) > 0 /\ isalpha(chars[1]) THEN 1 + LeadingLetters(Tail(chars)) ELSE 0

NoDollar(chars) == IF startswith(chars, "$") THEN Tail(chars) ELSE chars

\* a well-formed cell token: one to three letters and then one or more
\* digits, each part with an optional "$" in front
ColumnLetters(tok) == SubSeq(NoDollar(tok), 1, LeadingLetters(NoDollar(tok)))
RowDigits(tok) ==
    NoDollar(SubSeq(NoDollar(tok), LeadingLetters(NoDollar(tok)) + 1, Len(NoDollar(tok))))
WellFormedToken(tok) ==
    /\ Len(ColumnLetters(tok)) \in 1..3
    /\ Len(RowDigits(tok)) >= 1
    /\ \A i \in 1..Len(RowDigits(tok)) : isdigit(RowDigits(tok)[i])

\* C13: parse_range_reference maps Sheet!Start:End (quotes around the sheet
\* name and "$" markers optional) to the sheet, the rows and the columns, the
\* columns read as bijective base-26 letters; a single cell gives start equal
\* to end; "Sheet1!$B$2:$B$9" gives Sheet1, rows 2..9, columns 2..2; a
\* reference with no "!" or with a malformed row or column token gives a
\* failure (None or an exception), never a range.
C13_AsStated ==
    Returned("parse_range_reference") =>
        /\ (~HasBang(p_arg) => p_result.tag # "ok")
        /\ (HasBang(p_arg) /\ WellFormedToken(StartToken(p_arg))
                /\ WellFormedToken(EndToken(p_arg)) =>
              /\ p_result.tag = "ok"
              /\ p_result.sheet_name = Strip(SheetPart(p_arg), "'")
              /\ p_result.start_col = Base26(ColumnLetters(StartToken(p_arg)))
              /\ p_result.end_col = Base26(ColumnLetters(EndToken(p_arg)))
              /\ p_result.start_row = DecimalValue(RowDigits(StartToken(p_arg)))
              /\ p_result.end_row = DecimalValue(RowDigits(EndToken(p_arg)))
              /\ (IndexOf(CellPart(p_arg), ":") = 0 =>
                    /\ p_result.start_row = p_result.end_row
                    /\ p_result.start_col = p_result.end_col))
        /\ (HasBang(p_arg) /\ ~(WellFormedToken(StartToken(p_arg))
                                  /\ WellFormedToken(EndToken(p_arg))) =>
              p_result.tag # "ok")
        /\ (p_arg = <<"S", "h", "e", "e", "t", "1", "!", "$", "B", "$", "2", ":",
                      "$", "B", "$", "9">> =>
              p_result = [tag |-> "ok", sheet_name |-> <<"S", "h", "e", "e", "t", "1">>,
                          start_row |-> 2, end_row |-> 9, start_col |-> 2, end_col |-> 2])

\* ---- the series of the chart handed to the chart loop
SourceSeries == p_arg.ws.charts[1].series
ValueStartRow(series) == parse_range_reference(series.val).start_row
HasTitleCell(series) == Len(series.title_ref) > 0
TitleRow(series) == parse_range_reference(series.title_ref).start_row
TitleJustAbove(series) ==
    HasTitleCell(series) /\ TitleRow(series) = ValueStartRow(series) - 1

\* C14: for a series whose values start at row N, a title cell at row N-1
\* gives the emitted chart headerCount 1 and the series the start row N-1;
\* a title cell at any other row, or no title cell, gives the emitted chart
\* headerCount 0 and leaves the start row of the series at N.
C14_AsStated ==
    (Returned("chart_requests") /\ Len(p_result) = 1) =>
        \A i \in 1..Len(SourceSeries) :
            LET series == SourceSeries[i]
                emitted == p_result[1].series[i].sourceRange
            IN  /\ (TitleJustAbove(series) =>
                      /\ p_result[1].headerCount = 1
                      /\ emitted.startRowIndex + 1 = ValueStartRow(series) - 1)
                /\ (~TitleJustAbove(series) =>
                      /\ p_result[1].headerCount = 0
                      /\ emitted.startRowIndex + 1 = ValueStartRow(series))

\* =========================================================================
\* Properties of copy_sheet_from_excel: frozen panes, failures, reads
\* =========================================================================
Calls == {i \in 1..Len(log) : TRUE}
Duplicated == \E i \in Calls : log[i].call = "copyTo" /\ log[i].result = "ok"
DestinationSheet == SheetById(sheets, loc.new_sheet_id)
TemplateBefore == SheetById(hist.sheets0, loc.template_sheet_id)
TemplateWasFrozen ==
    TemplateBefore.frozenRowCount # 0 \/ TemplateBefore.frozenColumnCount # 0

\* a batchUpdate of the one frozen-pane request of the phase
FrozenCall(call, phase) ==
    /\ call.call = "batchUpdate"
    /\ call.requests = <<[kind |-> "updateSheetProperties", phase |-> phase]>>
HasUpdateCells(call) ==
    \E k \in 1..Len(call.requests) : call.requests[k].kind = "updateCells"

\* C15: when the destination was duplicated from a template with frozen
\* rows or columns, its frozen counts are set to 0 by a call made before the
\* updateCells is submitted, they are 0 during all the phases in between,
\* and at the end of the run the last remote call is the restoration, which
\* sets them to the frozen counts the template had.
C15_FrozenClearedThenRestored ==
    (Duplicated /\ TemplateWasFrozen) =>
        /\ \A i \in Calls :
              HasUpdateCells(log[i]) =>
                  \E j \in 1..(i - 1) : FrozenCall(log[j], 1) /\ log[j].result = "ok"
        /\ (pc \in {"main", "charts", "add_charts", "restore"} =>
              /\ DestinationSheet.frozenRowCount = 0
              /\ DestinationSheet.frozenColumnCount = 0)
        /\ (pc = "done" =>
              /\ FrozenCall(LastCall, 7)
              /\ \A i \in 1..(Len(log) - 1) : ~FrozenCall(log[i], 7)
              /\ (LastCall.result = "ok" =>
                    /\ DestinationSheet.frozenRowCount = TemplateBefore.frozenRowCount
                    /\ DestinationSheet.frozenColumnCount = TemplateBefore.frozenColumnCount))

C15_Witness ==
    /\ pc = "done" /\ Duplicated /\ TemplateWasFrozen
    /\ LastCall.result = "ok"
    /\ DestinationSheet.frozenRowCount = 2 /\ DestinationSheet.frozenColumnCount = 1
    /\ \E i \in Calls : HasUpdateCells(log[i])

RestorationFailed == Len(log) > 0 /\ FrozenCall(LastCall, 7) /\ LastCall.result \in Failures

\* C16: a remote failure of the restoration of the frozen panes does not
\* fail the run: a warning is reported, the run ends by returning the new
\* sheet id, and the remote sheets are as the earlier phases (main batch,
\* charts) left them.
C16_AsStated ==
    RestorationFailed =>
        /\ pc = "done"
        /\ hist.warned
        /\ loc.new_sheet_id # NoneId
        /\ \E sh \in Bearing(dest_sheet) : sh.sheetId = loc.new_sheet_id
        /\ sheets = ApplyBatch(ApplyBatch(hist.before_main,
                                          main_requests(worksheet, loc.new_sheet_id), NoneId),
                               loc.chart_requests, NoneId)
        /\ DestinationSheet.cells = build_rows(worksheet).rows_data

C18_AsStated ==
    /\ (/\ \A i \in 1..Len(Workbook) : Workbook[i].title # args.source_sheet
        /\ worksheet # <<>>) => hist.asked_source
    /\ pc = "not_found" => (log = <<>> /\ sheets = hist.sheets0 /\ worksheet = <<>>)

\* C19: once a run has made a mutating remote call (batchUpdate, copyTo),
\* it makes no read of the remote spreadsheet (spreadsheets.get, values.get)
\* for the rest of the run.
C19_AsStated ==
    \A i, j \in Calls :
        (i < j /\ Mutating(log[i])) => log[j].call \notin {"spreadsheets.get", "values.get"}

\* C20: in the Drive retry helpers a failure with HTTP status 429 is always
\* classified as rate limiting and retried, a failure with status 403 is
\* classified as rate limiting exactly when its text carries a quota or
\* rate-limit marker, and no other failure is classified as rate limiting.
DriveHelpers == {"_retry_drive", "_download_drive_file"}
LastFailure == r_trace[Len(r_trace)].err
JustFailed ==
    /\ r_helper \in DriveHelpers
    /\ Len(r_trace) > 0
    /\ r_trace[Len(r_trace)].ev = "call"
    /\ LastFailure # NoError
C20_AsStated ==
    JustFailed =>
        (r_pc = "backoff" <=>
            /\ LastFailure.cls = "HttpError"
            /\ \/ LastFailure.status = 429
               \/ LastFailure.status = 403 /\ LastFailure.marker)

\* C21: every value emitted as formulaValue is a text that begins with "=",
\* also for the cells flagged as formulas by their data type, and every
\* emitted value populates exactly one value variant.
IsText(out) == out.t = "str"
OneVariant(out) ==
    /\ out.kind \in {"formulaValue", "boolValue", "numberValue", "stringValue"}
    /\ (out.kind \notin {"formulaValue", "stringValue"} => out.s = <<>>)
    /\ (out.kind # "numberValue" => out.num = 0 /\ out.den = 1)
    /\ (out.kind # "boolValue" => ~out.b)
C21_AsStated ==
    t_pc = "built" =>
        \A rc \in EmittedCells :
            EmittedCell(rc[1], rc[2]).hasValue =>
                /\ OneVariant(EmittedCell(rc[1], rc[2]).userEnteredValue)
                /\ (EmittedCell(rc[1], rc[2]).userEnteredValue.kind = "formulaValue" =>
                      /\ IsText(EmittedCell(rc[1], rc[2]).userEnteredValue)
                      /\ startswith(EmittedCell(rc[1], rc[2]).userEnteredValue.s, "="))

\* C22: every range parse_range_reference produces for a well-formed
\* reference, its endpoints in either order, has start_row <= end_row and
\* start_col <= end_col, so that the grid range build_grid_range makes of it
\* has startRowIndex < endRowIndex and startColumnIndex < endColumnIndex.
GridOfResult ==
    build_grid_range(0, p_result.start_row, p_result.end_row,
                     p_result.start_col, p_result.end_col)
WellFormedReference ==
    HasBang(p_arg) /\ WellFormedToken(StartToken(p_arg)) /\ WellFormedToken(EndToken(p_arg))
C22_AsStated ==
    (Returned("parse_range_reference") /\ WellFormedReference) =>
        /\ p_result.tag = "ok"
        /\ p_result.start_row <= p_result.end_row
        /\ p_result.start_col <= p_result.end_col
        /\ GridOfResult.startRowIndex < GridOfResult.endRowIndex
        /\ GridOfResult.startColumnIndex < GridOfResult.endColumnIndex

\* C23: build_conditional_format_requests emits one addConditionalFormatRule
\* for each custom-formula rule of the worksheet (a rule of type "expression"
\* with its formula), in the order of the rules, and none for a rule of
\* another type; each has a formula that begins with "=" (the rule's formula,
\* prefixed when it has no "=") and the index 0; so, once the service has
\* applied them in the order of emission, the rule emitted last is the first
\* (highest priority) rule of the sheet and the rules of the sheet are the
\* emitted ones in reverse order.
RECURSIVE RulesOf(_)
RulesOf(cf_rules) ==
    IF Len(cf_rules) = 0 THEN <<>>
    ELSE cf_rules[1].rules \o RulesOf(Tail(cf_rules))
FormulaRules == SelectSeq(RulesOf(t_ws.conditional_formatting), LAMBDA rule : rule.type = "expression")
EmittedRules == SelectSeq(t_requests, LAMBDA req : req.kind = "addConditionalFormatRule")
Reversed(seq) == [i \in 1..Len(seq) |-> seq[Len(seq) + 1 - i]]
RulesAfter(requests) ==
    SheetById(ApplyBatch({NewSheet(t_sheet_id, <<"D">>)}, requests, NoneId), t_sheet_id).rules
C23_RulesPrepended ==
    t_pc = "built" =>
        /\ Len(EmittedRules) = Len(FormulaRules)
        /\ \A i \in 1..Len(EmittedRules) :
              /\ EmittedRules[i].index = 0
              /\ EmittedRules[i].conditionType = "CUSTOM_FORMULA"
              /\ startswith(EmittedRules[i].userEnteredValue, "=")
              /\ EmittedRules[i].userEnteredValue
                    \in {FormulaRules[i].formula[1], <<"=">> \o FormulaRules[i].formula[1]}
              /\ EmittedRules[i].ranges[1].sheetId = t_sheet_id
        /\ RulesAfter(EmittedRules)
              = Reversed([i \in 1..Len(EmittedRules) |-> EmittedRules[i].userEnteredValue])
        /\ RulesAfter(t_requests) = RulesAfter(EmittedRules)
        /\ (Len(EmittedRules) > 0 =>
              RulesAfter(t_requests)[1] = EmittedRules[Len(EmittedRules)].userEnteredValue)

C23_Witness ==
    /\ t_pc = "built"
    /\ Len(EmittedRules) = 3
    /\ Len(RulesOf(t_ws.conditional_formatting)) = 4
    /\ RulesAfter(t_requests) = << <<"=", "B", "2", "<", "0">>, <<"=", "B", "1">>,
                                   <<"=", "A", "1", ">", "0">> >>

\* C24: when the caller gives an allow-list of chart titles, be it empty, no
\* addChart is emitted for a chart whose title is not in the list nor for
\* an untitled chart: every chart request built has a title of the list.
AllowListGiven == args.allowed_chart_titles.given
ChartsWereBuilt ==
    /\ args.build_charts
    /\ pc \in {"add_charts", "restore", "done"}
    /\ not_template_sheet_id(loc.template_sheet_id)
C24_AsStated ==
    (AllowListGiven /\ ChartsWereBuilt) =>
        \A k \in 1..Len(loc.chart_requests) :
            /\ loc.chart_requests[k].title \in args.allowed_chart_titles.titles
            /\ loc.chart_requests[k].title # ""

\* C25: in the provisioning loop the prompt is only reached for the title
\* the destination has at that moment (a rename is looked up again under the
\* new title), an answer that leads back to the lookup (rename, unrecognised
\* choice) makes no remote call and changes no remote sheet, the sheet is
\* created (addSheet, or the rename of the duplicate) under a title no other
\* remote sheet bears at that moment, and no two remote sheets share a title.
TitlesUnique == \A sh1, sh2 \in sheets : sh1.title = sh2.title => sh1 = sh2
PromptIsForCurrentTitle ==
    pc = "prompt" =>
        /\ loc.existing_sheet_id # NoneId
        /\ \E sh \in Bearing(dest_sheet) : sh.sheetId = loc.existing_sheet_id
CreatedUnderFreeTitle ==
    /\ (pc \in {"template", "create", "rename_copy"} => Bearing(dest_sheet) = {})
    /\ (loc.new_sheet_id # NoneId /\ pc \notin {"rename_copy", "raised"} =>
          Bearing(dest_sheet) = {SheetById(sheets, loc.new_sheet_id)})
BackToLookup == pc = "prompt" /\ pc' = "check"
C25_RenameReevaluates ==
    /\ [](TitlesUnique /\ PromptIsForCurrentTitle /\ CreatedUnderFreeTitle)
    /\ [][BackToLookup => (sheets' = sheets /\ log' = log)]_vars

C25_Witness ==
    /\ pc = "done" /\ prompts >= 2
    /\ dest_sheet # args.dest_sheet
    /\ hist.overwritten # NoneId
    /\ Bearing(dest_sheet) = {SheetById(sheets, loc.new_sheet_id)}

\* C26: a blank answer to the rename prompt is never proceeded with: the
\* provisioning loop is not left with an empty destination title, and no
\* remote sheet is created under, or renamed to, the empty title.
C26_AsStated ==
    /\ (pc \in {"template", "create", "rename_copy"} => dest_sheet # Blank)
    /\ \A sh \in sheets : sh.title # Blank

\* C27: within one emitted addChart the header handling is the same for all
\* ranges: with headerCount 1 the domain range and every series range start
\* one row above their data (at the header row), with headerCount 0 none of
\* them does, also for a chart of several series whose title cells are not
\* all just above their values.
CategoryStartRow(series) == parse_range_reference(series.cat_str).start_row
SeriesWidened(i) ==
    p_result[1].series[i].sourceRange.startRowIndex + 1 = ValueStartRow(SourceSeries[i]) - 1
SeriesAsWritten(i) ==
    p_result[1].series[i].sourceRange.startRowIndex + 1 = ValueStartRow(SourceSeries[i])
DomainWidened ==
    p_result[1].domains[1].startRowIndex + 1 = CategoryStartRow(SourceSeries[1]) - 1
DomainAsWritten ==
    p_result[1].domains[1].startRowIndex + 1 = CategoryStartRow(SourceSeries[1])
C27_AsStated ==
    (Returned("chart_requests") /\ Len(p_result) = 1) =>
        /\ Len(p_result[1].series) = Len(SourceSeries)
        /\ p_result[1].headerCount \in {0, 1}
        /\ (p_result[1].headerCount = 1 =>
              DomainWidened /\ \A i \in 1..Len(SourceSeries) : SeriesWidened(i))
        /\ (p_result[1].headerCount = 0 =>
              DomainAsWritten /\ \A i \in 1..Len(SourceSeries) : SeriesAsWritten(i))

\* C28: when a sheet of the template title given exists in the remote
\* spreadsheet at the start of the run, a destination sheet that is created
\* is created by duplicating that template (copyTo), not by addSheet,
\* whatever was answered at the conflict prompt.
TemplateAtStart ==
    /\ args.chart_template_sheet # Blank
    /\ \E sh \in hist.sheets0 : sh.title = args.chart_template_sheet
C28_AsStated ==
    (TemplateAtStart /\ loc.new_sheet_id # NoneId) =>
        /\ Duplicated
        /\ \A i \in Calls : \A k \in 1..Len(log[i].requests) :
              log[i].requests[k].kind # "addSheet"

\* C29: the sheet a copy has created carries at most one chart of each
\* title, at every point of main's handling of the source sheet; for
\* 'data_aggregation' the chart 'Net Sales (Last 8 Weeks)' is there at most
\* once after copy_sheet_from_excel and add_last_8_weeks_net_sales_chart.
ChartsOfDestination == DestinationSheet.charts
C29_AsStated ==
    (loc.new_sheet_id # NoneId /\ pc \in {"done", "net_sales", "finished"}) =>
        \A i, j \in 1..Len(ChartsOfDestination) :
            ChartsOfDestination[i] = ChartsOfDestination[j] => i = j

\* C30: for every max_retries >= 0 and base delay, a retry helper that
\* reports failure has invoked the wrapped call at least once, and every
\* delay it took was followed by another attempt: when the helper is over,
\* no sleep is the last thing it did.
C30_AsStated ==
    /\ (r_pc = "raised" => Cardinality(CallEvents) >= 1)
    /\ (RetryDone =>
          \A i \in 1..Len(r_trace) :
              r_trace[i].ev = "sleep" => (i < Len(r_trace) /\ r_trace[i + 1].ev = "call"))

====
